---- MODULE Spec2Model ----
(***************************************************************************)
(* Transit Arrival Resolution Engine: the schedule-based GET /api/arrivals *)
(* handler of server/src/routes/arrivals.js (second router in the file),   *)
(* together with the GTFS tables it reads (schema of server/index.js).     *)
(*                                                                         *)
(* Text columns that the handler parses (arrival_time, the clock time) are *)
(* sequences of one-character strings, so that split, parseInt, padStart   *)
(* and the ORDER BY of the query are computed and not assumed.  Dates are  *)
(* the integers whose decimal digits are the YYYYMMDD text.                *)
(*                                                                         *)
(* Further specifications over the same variables: LiveSpec, the live-feed *)
(* handler over the cache of tallinnApi.js; CacheSpec, concurrent calls of *)
(* getStops; NightSpec, the schedule handler shortly after midnight;       *)
(* PureSpec, the date functions, the route list of buses.js and the        *)
(* nearest-stop lookup applied to given arguments; ClientSpec, the page of *)
(* client/app.js; ImportSpec, importStopTimes of server/index.js.          *)
(***************************************************************************)
EXTENDS Integers, Sequences, FiniteSets, TLC

\* ------------------------------------------------------------------ bounds
\* at most this many of the optional stop_times rows are in the store
MaxExtraRows == 2
\* at most this many calendar_dates rows are in the store
MaxExceptions == 1

\* stop_times.txt holds at most this many records
MaxRecords == 5
\* BATCH_SIZE of importStopTimes (5000 in the program), scaled down
BatchSize == 2

\* ------------------------------------------------------- program constants
\* tallinnApi.js: CACHE_TTL = 60 * 60 * 1000
CACHE_TTL == 3600000
\* arrivals.js (live feed): filteredArrivals.slice(0, 10)
LiveLimit == 10
\* the clock stops after this many half hours
MaxTicks == 2
ResultLimit == 5
SecondsPerDay == 86400
HoursPerDay == 24

\* ------------------------------------------------------------ JS numbers
\* every number the handler computes is a non-negative integer or NaN
NaN == -1

NumAdd(a, b) == IF a = NaN \/ b = NaN THEN NaN ELSE a + b
NumMul(a, k) == IF a = NaN THEN NaN ELSE a * k
NumMod(a, k) == IF a = NaN THEN NaN ELSE a % k
\* a >= b of JS: false as soon as one side is NaN
NumGe(a, b) == a # NaN /\ b # NaN /\ a >= b

\* ------------------------------------------------------------ JS strings
DigitChars == <<"0", "1", "2", "3", "4", "5", "6", "7", "8", "9">>
IsDigit(c) == \E i \in 1..10 : DigitChars[i] = c
DigitVal(c) == (CHOOSE i \in 1..10 : DigitChars[i] = c) - 1

\* SQL NULL in a text column that is held as a character sequence
SqlNull == <<"NULL">>
\* SQL NULL in a column held as a TLA+ string or number
NullText == "<null>"
NullInt == -1

RECURSIVE DigitPrefix(_, _, _)
DigitPrefix(s, i, acc) ==
    IF i > Len(s) \/ ~IsDigit(s[i]) THEN acc
    ELSE DigitPrefix(s, i + 1, acc * 10 + DigitVal(s[i]))

\* parseInt(text): the value of the leading digits, NaN when there are none
ParseInt(s) == IF Len(s) = 0 \/ ~IsDigit(s[1]) THEN NaN ELSE DigitPrefix(s, 1, 0)

RECURSIVE Split(_)
\* text.split(':')
Split(s) ==
    IF \A i \in 1..Len(s) : s[i] # ":" THEN <<s>>
    ELSE LET i == CHOOSE k \in 1..Len(s) : s[k] = ":" /\ \A j \in 1..(k - 1) : s[j] # ":"
         IN <<SubSeq(s, 1, i - 1)>> \o Split(SubSeq(s, i + 1, Len(s)))

RECURSIVE NumDigits(_)
NumDigits(n) == IF n < 10 THEN <<DigitChars[n + 1]>>
                ELSE NumDigits(n \div 10) \o <<DigitChars[(n % 10) + 1]>>

\* String(n)
NumStr(n) == IF n = NaN THEN <<"N", "a", "N">> ELSE NumDigits(n)
\* text.padStart(2, '0')
PadStart2(s) == IF Len(s) < 2 THEN <<"0">> \o s ELSE s

\* ------------------------------------------------------------ dates
\* a calendar that has a 29 February in every fourth year
IsLeap_Julian(y) == y % 4 = 0
IsLeap(y) == (y % 4 = 0 /\ y % 100 # 0) \/ y % 400 = 0
DaysInMonth(y, m) ==
    IF m = 2 THEN (IF IsLeap(y) THEN 29 ELSE 28)
    ELSE IF m \in {4, 6, 9, 11} THEN 30 ELSE 31

\* new Date(year, ...): a year of 0..99 is read as 1900 + year
DateYear(year) == IF year < 100 THEN 1900 + year ELSE year

\* new Date(year, month, day); setDate(getDate() + 1); formatted back
getTomorrow(todayStr) ==
    LET year == DateYear(todayStr \div 10000)
        month == (todayStr \div 100) % 100
        day == todayStr % 100
    IN IF day < DaysInMonth(year, month) THEN year * 10000 + month * 100 + day + 1
       ELSE IF month < 12 THEN year * 10000 + (month + 1) * 100 + 1
       ELSE (year + 1) * 10000 + 101

MonthOffset == <<0, 3, 2, 5, 0, 3, 5, 1, 4, 6, 2, 4>>

\* new Date(year, month, day).getDay(), 0 = Sunday
getDayOfWeek(dateStr) ==
    LET year == DateYear(dateStr \div 10000)
        month == (dateStr \div 100) % 100
        day == dateStr % 100
        y == IF month < 3 THEN year - 1 ELSE year
    IN (y + (y \div 4) - (y \div 100) + (y \div 400) + MonthOffset[month] + day) % 7

DayNames == <<"sunday", "monday", "tuesday", "wednesday", "thursday", "friday", "saturday">>
getDayColumn(dayOfWeek) == DayNames[dayOfWeek + 1]

\* ------------------------------------------------------------ time parsing
Part(parts, i) == IF i <= Len(parts) /\ Len(parts[i]) > 0 THEN ParseInt(parts[i]) ELSE 0

ParsedNull == [isNull |-> TRUE]

\* variant: the displayed hour is not reduced modulo 24
parseGtfsTime_NoWrap(timeStr) ==
    IF timeStr = SqlNull \/ Len(timeStr) = 0 THEN ParsedNull
    ELSE LET parts == Split(timeStr)
             hours == Part(parts, 1)
             minutes == Part(parts, 2)
             seconds == Part(parts, 3)
         IN [isNull |-> FALSE,
             hours |-> hours,
             minutes |-> minutes,
             seconds |-> seconds,
             totalSeconds |-> NumAdd(NumAdd(NumMul(hours, 3600), NumMul(minutes, 60)), seconds),
             isNextDay |-> NumGe(hours, HoursPerDay),
             normalizedHours |-> NumMod(hours, HoursPerDay),
             display |-> PadStart2(NumStr(hours)) \o <<":">> \o PadStart2(NumStr(minutes))]

\* parseGtfsTime(timeStr): null for a null or empty text, else the fields
parseGtfsTime(timeStr) ==
    IF timeStr = SqlNull \/ Len(timeStr) = 0 THEN ParsedNull
    ELSE LET parts == Split(timeStr)
             hours == Part(parts, 1)
             minutes == Part(parts, 2)
             seconds == Part(parts, 3)
         IN [isNull |-> FALSE,
             hours |-> hours,
             minutes |-> minutes,
             seconds |-> seconds,
             totalSeconds |-> NumAdd(NumAdd(NumMul(hours, 3600), NumMul(minutes, 60)), seconds),
             isNextDay |-> NumGe(hours, HoursPerDay),
             normalizedHours |-> NumMod(hours, HoursPerDay),
             display |-> PadStart2(NumStr(NumMod(hours, HoursPerDay))) \o <<":">>
                         \o PadStart2(NumStr(minutes))]

\* timeToSeconds(timeStr) of the current clock time "HH:MM:SS"
timeToSeconds(timeStr) ==
    LET parts == Split(timeStr)
        p(i) == IF i <= Len(parts) THEN ParseInt(parts[i]) ELSE NaN
        p3 == IF Len(parts) >= 3 /\ Len(parts[3]) > 0 THEN ParseInt(parts[3]) ELSE 0
    IN NumAdd(NumAdd(NumMul(p(1), 3600), NumMul(p(2), 60)), p3)

\* the Estonian labels for today and tomorrow, in ASCII
LabelToday == <<"T", "a", "n", "a">>
LabelTomorrow == <<"H", "o", "m", "m", "e">>

\* a variant without the label of tomorrow
formatDateLabel_NoTomorrow(dateStr, todayStr, tomorrowStr) ==
    IF dateStr = todayStr THEN LabelToday
    ELSE PadStart2(NumStr(dateStr % 100)) \o <<".">> \o PadStart2(NumStr((dateStr \div 100) % 100))

\* formatDateLabel(dateStr, todayStr, tomorrowStr)
formatDateLabel(dateStr, todayStr, tomorrowStr) ==
    IF dateStr = todayStr THEN LabelToday
    ELSE IF dateStr = tomorrowStr THEN LabelTomorrow
    ELSE PadStart2(NumStr(dateStr % 100)) \o <<".">> \o PadStart2(NumStr((dateStr \div 100) % 100))

\* ------------------------------------------------------------ Array.prototype.sort
\* arrivals.sort((a, b) => a.totalSeconds - b.totalSeconds): the comparator's
\* result, NaN taken as +0 (ECMAScript SortCompare)
Compare(a, b) ==
    IF a.totalSeconds = NaN \/ b.totalSeconds = NaN THEN 0
    ELSE a.totalSeconds - b.totalSeconds

RECURSIVE RunLength(_, _, _)
\* length of the natural run that starts the array
RunLength(a, isDescending, idx) ==
    IF idx > Len(a) THEN idx - 1
    ELSE LET order == Compare(a[idx], a[idx - 1])
         IN IF (isDescending /\ order >= 0) \/ (~isDescending /\ order < 0) THEN idx - 1
            ELSE RunLength(a, isDescending, idx + 1)

Reverse(s) == [i \in 1..Len(s) |-> s[Len(s) + 1 - i]]

RECURSIVE FindPos(_, _, _, _)
\* binary search of the insertion point of pivot in a[left..right-1]
FindPos(a, pivot, left, right) ==
    IF left >= right THEN left
    ELSE LET mid == left + ((right - left) \div 2)
         IN IF Compare(pivot, a[mid]) < 0 THEN FindPos(a, pivot, left, mid)
            ELSE FindPos(a, pivot, mid + 1, right)

RECURSIVE BinaryInsertionSort(_, _)
BinaryInsertionSort(a, start) ==
    IF start > Len(a) THEN a
    ELSE LET pivot == a[start]
             left == FindPos(a, pivot, 1, start)
             moved == SubSeq(a, 1, left - 1) \o <<pivot>> \o SubSeq(a, left, start - 1)
                      \o SubSeq(a, start + 1, Len(a))
         IN BinaryInsertionSort(moved, start + 1)

\* the sort of the runtime for arrays shorter than its minimum run length:
\* the leading run is kept (reversed when descending), the rest is inserted
SortArrivals(a) ==
    IF Len(a) < 2 THEN a
    ELSE LET isDescending == Compare(a[2], a[1]) < 0
             run == RunLength(a, isDescending, 3)
             made == IF isDescending THEN Reverse(SubSeq(a, 1, run)) \o SubSeq(a, run + 1, Len(a))
                     ELSE a
         IN BinaryInsertionSort(made, run + 1)

\* ------------------------------------------------------------ the store
\* dates of the model: Wed 28 Feb 2024, Thu 29 Feb 2024 (leap day), Fri 1 Mar 2024
ModelDates == <<20240228, 20240229, 20240301>>
Day1 == ModelDates[1]
Day2 == ModelDates[2]
Day3 == ModelDates[3]

Chars2(n) == PadStart2(NumStr(n))
\* the text "HH:MM:SS"
HMS(h, m, sec) == Chars2(h) \o <<":">> \o Chars2(m) \o <<":">> \o Chars2(sec)

\* stops(stop_id)
Stops == {"1234", "5678"}

\* routes(route_id, route_short_name, route_long_name): two agencies share "10A"
Routes == {
    [route_id |-> "r1", route_short_name |-> "10A", route_long_name |-> "Kesklinn - Lasnamae"],
    [route_id |-> "r2", route_short_name |-> "10A", route_long_name |-> NullText],
    [route_id |-> "r3", route_short_name |-> "2", route_long_name |-> "Kopli - Suur-Paala"] }

Trip(id, route, service, headsign, direction) ==
    [trip_id |-> id, route_id |-> route, service_id |-> service,
     trip_headsign |-> headsign, direction_id |-> direction]

\* trips(trip_id, route_id, service_id, trip_headsign, direction_id)
Trips == {
    Trip("b1", "r1", "sB", "Lasnamae", 0), Trip("b2", "r1", "sB", "", 0),
    Trip("b3", "r1", "sB", "Lasnamae", 0), Trip("b4", "r1", "sB", "Lasnamae", 0),
    Trip("e1", "r2", "sA", "Kesklinn", 1), Trip("e2", "r2", "sA", "Kesklinn", 1),
    Trip("e3", "r2", "sA", NullText, NullInt), Trip("e4", "r2", "sA", "", 1),
    Trip("e6", "r2", "sA", "Kesklinn", 1),
    Trip("e7", "r2", "sA", "Kesklinn", 1), Trip("e8", "r3", "sA", "Kopli", 0),
    Trip("e9", "r1", "sB", "Lasnamae", 0) }

StopTime(trip, stop, time) == [trip_id |-> trip, stop_id |-> stop, arrival_time |-> time]

\* the evening runs of the always-running service sB, a row of another route
\* name and a row of another stop
BaseRows == {
    StopTime("b1", "1234", HMS(20, 0, 0)), StopTime("b2", "1234", HMS(21, 0, 0)),
    StopTime("b3", "1234", HMS(22, 0, 0)), StopTime("b4", "1234", HMS(23, 0, 0)),
    StopTime("e8", "1234", HMS(14, 35, 0)), StopTime("e9", "5678", HMS(14, 35, 0)) }

\* optional rows: early, before and at 14:00 (two trips at 14:00), past
\* midnight, second day past midnight, texts that are not HH:MM:SS
ExtraRows == {
    StopTime("e1", "1234", HMS(0, 30, 0)),
    StopTime("e3", "1234", HMS(13, 30, 0)),
    StopTime("e4", "1234", HMS(14, 0, 0)),
    StopTime("e2", "1234", HMS(14, 0, 0)),
    StopTime("e6", "1234", HMS(25, 10, 0)),
    StopTime("e7", "1234", HMS(49, 0, 0)),
    StopTime("e1", "1234", SqlNull),
    StopTime("e2", "1234", <<>>),
    StopTime("e3", "1234", <<"a", "b", "c">>),
    StopTime("e4", "1234", <<"1", "2">>),
    StopTime("e6", "1234", <<"2", "5", ":", "x", "x", ":", "0", "0">>) }

AllDays == [sunday |-> 1, monday |-> 1, tuesday |-> 1, wednesday |-> 1,
            thursday |-> 1, friday |-> 1, saturday |-> 1]
NoDays == [sunday |-> 0, monday |-> 0, tuesday |-> 0, wednesday |-> 0,
           thursday |-> 0, friday |-> 0, saturday |-> 0]
Calendar(service, days, start, end) ==
    days @@ [service_id |-> service, start_date |-> start, end_date |-> end]

\* calendar row of sB: every day, all of 2024
CalendarB == Calendar("sB", AllDays, 20240101, 20241231)

\* the calendar rows sA may have: Thursdays of 2024, every day but only on
\* Day2, every day of 2024
CalendarChoicesA == {
    Calendar("sA", [NoDays EXCEPT !.thursday = 1], 20240101, 20241231),
    Calendar("sA", AllDays, Day2, Day2),
    Calendar("sA", AllDays, 20240101, 20241231) }

CalendarDate(service, date, type) ==
    [service_id |-> service, date |-> date, exception_type |-> type]

ExceptionRows == {
    CalendarDate("sA", Day1, 2), CalendarDate("sA", Day2, 1),
    CalendarDate("sA", Day2, 2), CalendarDate("sA", Day3, 1) }

\* UNIQUE KEY unique_service_date (service_id, date)
UniqueServiceDate(rows) ==
    \A x, y \in rows : (x.service_id = y.service_id /\ x.date = y.date) => x = y

\* request parameters and instants the handler is run with
RequestStops == {"1234", "9999"}
RequestRoutes == {"10A", "77", ""}
ClockDates == {Day1, Day2}
ClockTimes == {HMS(14, 0, 0), HMS(23, 0, 0)}

VARIABLES
    stop_times,      \* table stop_times: rows (trip_id, stop_id, arrival_time)
    calendar,        \* table calendar: rows keyed by service_id
    calendar_dates,  \* table calendar_dates: rows (service_id, date, exception_type)
    pc,              \* the await the handler is suspended at
    req,             \* req.query: stopId, route
    tallinnTime,     \* getTallinnTime(): date, time, dayOfWeek
    routeIds,        \* route ids of the requested short name
    todayArrivals,   \* rows returned by today's query, in the order returned
    tomorrowArrivals,\* rows returned by tomorrow's query, in the order returned
    arrivals,        \* the array the handler pushes to and sorts
    queries,         \* the queries issued to the store so far
    response,        \* what res.status(..).json(..) sent
    caught,          \* the query whose rejection the catch block caught, "" if none
    stopsCache,      \* tallinnApi: stopsCache
    siriIdMap,       \* tallinnApi: siriIdMap
    cacheTimestamp,  \* tallinnApi: cacheTimestamp
    clock,           \* Date.now()
    live,            \* the live-feed handler's requests: locals and response of each
    call,            \* the pure function applied last, with its arguments
    outcome,         \* what that application returned
    client,          \* client/app.js: state, the panel and the requests in flight
    importer         \* server/index.js importStopTimes: parser, batch and counters

vars == <<stop_times, calendar, calendar_dates, pc, req, tallinnTime, routeIds,
          todayArrivals, tomorrowArrivals, arrivals, queries, response, caught,
          stopsCache, siriIdMap, cacheTimestamp, clock, live,
          call, outcome, client, importer>>

\* the state of the live-feed variant: the module state of tallinnApi and the
\* requests of its handler
liveVars == <<stopsCache, siriIdMap, cacheTimestamp, clock, live>>
restVars == <<call, outcome, client, importer>>

store == <<stop_times, calendar, calendar_dates>>

\* ------------------------------------------------------------ the arrival query
NullCalendar == Calendar(NullText, [d \in DOMAIN AllDays |-> NullInt], NullInt, NullInt)
NullException == CalendarDate(NullText, NullInt, NullInt)

\* variant: JOIN instead of LEFT JOIN, a trip without calendar row is lost
JoinCalendar_Inner(t) == {c \in calendar : c.service_id = t.service_id}

\* LEFT JOIN calendar c ON t.service_id = c.service_id
JoinCalendar(t) ==
    LET m == {c \in calendar : c.service_id = t.service_id}
    IN IF m = {} THEN {NullCalendar} ELSE m

\* LEFT JOIN calendar_dates cd ON t.service_id = cd.service_id AND cd.date = ?
JoinCalendarDates(t, date) ==
    LET m == {cd \in calendar_dates : cd.service_id = t.service_id /\ cd.date = date}
    IN IF m = {} THEN {NullException} ELSE m

\* variant: the end of the validity window is not compared
ServiceClause_NoEndDate(c, cd, dayColumn, date) ==
    \/ /\ c[dayColumn] = 1
       /\ c.start_date # NullInt /\ c.start_date <= date
       /\ (cd.exception_type = NullInt \/ cd.exception_type # 2)
    \/ cd.exception_type = 1

\* variant: a removal exception is not looked at
ServiceClause_IgnoreRemoved(c, cd, dayColumn, date) ==
    \/ /\ c[dayColumn] = 1
       /\ c.start_date # NullInt /\ c.start_date <= date
       /\ c.end_date # NullInt /\ c.end_date >= date
    \/ cd.exception_type = 1

\* the WHERE clause on the calendar columns; a comparison with NULL is not true
ServiceClause(c, cd, dayColumn, date) ==
    \/ /\ c[dayColumn] = 1
       /\ c.start_date # NullInt /\ c.start_date <= date
       /\ c.end_date # NullInt /\ c.end_date >= date
       /\ (cd.exception_type = NullInt \/ cd.exception_type # 2)
    \/ cd.exception_type = 1

ResultRow(st, t, r, c) ==
    [arrival_time |-> st.arrival_time,
     trip_id |-> t.trip_id,
     trip_headsign |-> t.trip_headsign,
     direction_id |-> t.direction_id,
     route_short_name |-> r.route_short_name,
     route_long_name |-> r.route_long_name,
     service_id |-> c.service_id]

\* SELECT DISTINCT ... of todayArrivalsSql / tomorrowArrivalsSql, unordered
\* (departure_time, which the handler never reads, is left out of the rows)
ArrivalsQuery(date, dayColumn, stopId, ids) ==
    UNION { UNION { UNION { { ResultRow(st, t, r, c) :
                c \in { x \in JoinCalendar(t) :
                          \E cd \in JoinCalendarDates(t, date) :
                              ServiceClause(x, cd, dayColumn, date) } } :
              r \in { x \in Routes : x.route_id = t.route_id /\ x.route_id \in ids } } :
            t \in { x \in Trips : x.trip_id = st.trip_id } } :
          st \in { x \in stop_times : x.stop_id = stopId } }

\* collation order of the characters that occur in arrival_time
Collation == <<":", "0", "1", "2", "3", "4", "5", "6", "7", "8", "9", "a", "b", "c", "x">>
CharRank(ch) == CHOOSE i \in 1..Len(Collation) : Collation[i] = ch

RECURSIVE TextLess(_, _)
TextLess(a, b) ==
    IF Len(b) = 0 THEN FALSE
    ELSE IF Len(a) = 0 THEN TRUE
    ELSE IF CharRank(a[1]) # CharRank(b[1]) THEN CharRank(a[1]) < CharRank(b[1])
    ELSE TextLess(Tail(a), Tail(b))

\* a sorts no later than b under ORDER BY arrival_time ASC (NULL first)
OrderLe(a, b) ==
    IF a = SqlNull THEN TRUE
    ELSE IF b = SqlNull THEN FALSE
    ELSE ~TextLess(b, a)

RECURSIVE OrderedResults(_)
\* every order in which the store may return the rows under the ORDER BY
OrderedResults(rows) ==
    IF rows = {} THEN {<<>>}
    ELSE UNION { { <<r>> \o rest : rest \in OrderedResults(rows \ {r}) } :
                 r \in { x \in rows : \A y \in rows : OrderLe(x.arrival_time, y.arrival_time) } }

\* ------------------------------------------------------------ the handler
today == tallinnTime.date
tomorrow == getTomorrow(tallinnTime.date)
currentTimeSeconds == timeToSeconds(tallinnTime.time)
todayDayColumn == getDayColumn(tallinnTime.dayOfWeek)
tomorrowDayColumn == getDayColumn(getDayOfWeek(tomorrow))

Entry(arr, parsed, totalSeconds, date) ==
    [time |-> parsed.display,
     arrival_time_raw |-> arr.arrival_time,
     totalSeconds |-> totalSeconds,
     date |-> date,
     trip_headsign |-> arr.trip_headsign,
     direction_id |-> arr.direction_id,
     route_short_name |-> arr.route_short_name,
     route_long_name |-> arr.route_long_name,
     isFromPreviousDayService |-> FALSE]

\* variant: an arrival at the current second counts as departed
TodayStep_Strict(arr) ==
    LET parsed == parseGtfsTime(arr.arrival_time)
    IN IF parsed.isNull THEN <<>>
       ELSE IF parsed.isNextDay THEN <<Entry(arr, parsed, parsed.totalSeconds, tomorrow)>>
       ELSE IF NumGe(parsed.totalSeconds, NumAdd(currentTimeSeconds, 1))
            THEN <<Entry(arr, parsed, parsed.totalSeconds, today)>>
       ELSE <<>>

\* body of "for (const arr of todayArrivals)": the entries pushed for one row
TodayStep(arr) ==
    LET parsed == parseGtfsTime(arr.arrival_time)
    IN IF parsed.isNull THEN <<>>
       ELSE IF parsed.isNextDay THEN <<Entry(arr, parsed, parsed.totalSeconds, tomorrow)>>
       ELSE IF NumGe(parsed.totalSeconds, currentTimeSeconds)
            THEN <<Entry(arr, parsed, parsed.totalSeconds, today)>>
       ELSE <<>>

\* variant: past-midnight times of tomorrow's services are kept
TomorrowStep_KeepNextDay(arr) ==
    LET parsed == parseGtfsTime(arr.arrival_time)
    IN IF parsed.isNull THEN <<>>
       ELSE <<Entry(arr, parsed, NumAdd(parsed.totalSeconds, SecondsPerDay), tomorrow)>>

\* variant: tomorrow's entries keep the raw seconds as sort key
TomorrowStep_NoShift(arr) ==
    LET parsed == parseGtfsTime(arr.arrival_time)
    IN IF parsed.isNull THEN <<>>
       ELSE IF parsed.isNextDay THEN <<>>
       ELSE <<Entry(arr, parsed, parsed.totalSeconds, tomorrow)>>

\* body of "for (const arr of tomorrowArrivals)"
TomorrowStep(arr) ==
    LET parsed == parseGtfsTime(arr.arrival_time)
    IN IF parsed.isNull THEN <<>>
       ELSE IF parsed.isNextDay THEN <<>>
       ELSE <<Entry(arr, parsed, NumAdd(parsed.totalSeconds, SecondsPerDay), tomorrow)>>

RECURSIVE TodayLoop(_, _)
TodayLoop(rows, i) ==
    IF i > Len(rows) THEN <<>> ELSE TodayStep(rows[i]) \o TodayLoop(rows, i + 1)

RECURSIVE TomorrowLoop(_, _)
TomorrowLoop(rows, i) ==
    IF i > Len(rows) THEN <<>> ELSE TomorrowStep(rows[i]) \o TomorrowLoop(rows, i + 1)

\* arrivals.slice(0, 5)
Slice(a) == SubSeq(a, 1, IF Len(a) < ResultLimit THEN Len(a) ELSE ResultLimit)

\* headsign: arr.trip_headsign || arr.route_long_name || ''
Headsign(arr) ==
    IF arr.trip_headsign # NullText /\ arr.trip_headsign # "" THEN arr.trip_headsign
    ELSE IF arr.route_long_name # NullText /\ arr.route_long_name # "" THEN arr.route_long_name
    ELSE ""

FormatEntry(arr) ==
    [time |-> arr.time,
     dateLabel |-> formatDateLabel(arr.date, today, tomorrow),
     date |-> arr.date,
     headsign |-> Headsign(arr),
     direction |-> arr.direction_id,
     route |-> arr.route_short_name]

ErrorResponse(status, error) == [status |-> status, success |-> FALSE, error |-> error]

\* a variant that answers "not found" when nothing is left to show
SuccessResponse_EmptyIsNotFound(sorted) ==
    IF Len(sorted) = 0 THEN ErrorResponse(404, "No arrivals found")
    ELSE LET nextArrivals == Slice(sorted)
             result == [i \in 1..Len(nextArrivals) |-> FormatEntry(nextArrivals[i])]
         IN [status |-> 200, success |-> TRUE, stop |-> req.stopId, route |-> req.route,
             currentTime |-> tallinnTime.time, currentDate |-> tallinnTime.date,
             count |-> Len(result), data |-> result]

\* res.json({success: true, ...}) of the sorted array
SuccessResponse(sorted) ==
    LET nextArrivals == Slice(sorted)
        result == [i \in 1..Len(nextArrivals) |-> FormatEntry(nextArrivals[i])]
    IN [status |-> 200, success |-> TRUE, stop |-> req.stopId, route |-> req.route,
        currentTime |-> tallinnTime.time, currentDate |-> tallinnTime.date,
        count |-> Len(result), data |-> result]

NoResponse == [status |-> 0]
NoRequest == [stopId |-> "", route |-> ""]
NoTime == [date |-> Day1, time |-> <<>>, dayOfWeek |-> 0]

\* ------------------------------------------------------------ the live-feed variant
\* tallinnApi.js and the handler of GET /api/arrivals that reads it.  Stop ids
\* and numbers of the feed are character sequences, routes are strings.

\* let stopsCache = null; let siriIdMap = null
NoCache == [loaded |-> FALSE]
\* a stops list or an id map assigned to stopsCache or siriIdMap
Loaded(value) == [loaded |-> TRUE, value |-> value]
\* siriIdMap.get of an id that is not mapped, and getSiriId's null
NoSiri == <<"undefined">>
\* how far Date.now() moves between two events
ClockSteps == {CACHE_TTL \div 2, CACHE_TTL}
\* the requests that may be in flight together
Reqs == {"A", "B"}

\* /^\d+$/.test(text)
IsNumeric(text) == Len(text) > 0 /\ \A i \in 1..Len(text) : IsDigit(text[i])

\* the records of /data/stops.txt after the header, split at ';': an
\* aggregated stop, its platform, and a platform record without a name
StopsTxt == <<
    [id |-> <<"a", "1">>, siriId |-> <<>>, stopIds |-> <<>>, name |-> "Kesk"],
    [id |-> <<"p", "1">>, siriId |-> <<"1", "0", "1">>, stopIds |-> << <<"a", "1">> >>,
     name |-> "Kesk"],
    [id |-> <<"p", "2">>, siriId |-> <<"1", "0", "2">>, stopIds |-> << <<"a", "1">> >>,
     name |-> ""] >>

\* the lines of /siri-stop-departures.php after the header, split at ',':
\* none for a stop id without departures
SiriLines(siriId) ==
    IF siriId = <<"1", "0", "1">>
    THEN << [parts |-> 6, transport |-> "2", route |-> "2",
             expected |-> NumStr(120), schedule |-> NumStr(60)],
            [parts |-> 6, transport |-> "3", route |-> "10A",
             expected |-> NumStr(30), schedule |-> NumStr(30)],
            [parts |-> 1, transport |-> "ERROR", route |-> "",
             expected |-> <<>>, schedule |-> <<>>] >>
    ELSE <<>>

LiveStops == {<<"p", "1">>, <<"a", "1">>, <<"1", "0", "2">>, <<"z", "z">>, <<>>}
LiveRoutes == {"", "2"}

RECURSIVE SetRelated(_, _, _, _)
\* for (const relId of relatedStops) if (!idToSiri.has(relId)) idToSiri.set(relId, siriId)
SetRelated(idToSiri, relatedStops, siriId, i) ==
    IF i > Len(relatedStops) THEN idToSiri
    ELSE SetRelated(IF relatedStops[i] \in DOMAIN idToSiri THEN idToSiri
                    ELSE idToSiri @@ (relatedStops[i] :> siriId),
                    relatedStops, siriId, i + 1)

RECURSIVE BuildSiriMap(_, _, _)
\* the idToSiri map after the records from i on
BuildSiriMap(lines, i, idToSiri) ==
    IF i > Len(lines) THEN idToSiri
    ELSE LET rec == lines[i]
         IN BuildSiriMap(lines, i + 1,
                IF IsNumeric(rec.siriId)
                THEN SetRelated((rec.id :> rec.siriId) @@ idToSiri, rec.stopIds, rec.siriId, 1)
                ELSE idToSiri)

\* parseStops(data): the stops list, and the map it stores in siriIdMap
parseStops(lines) ==
    LET named == SelectSeq(lines, LAMBDA rec : rec.name # "")
    IN [stops |-> [i \in 1..Len(named) |->
                      [id |-> named[i].id,
                       siriId |-> IF named[i].siriId = <<>> THEN NoSiri ELSE named[i].siriId,
                       stopIds |-> named[i].stopIds,
                       name |-> named[i].name]],
        idToSiri |-> BuildSiriMap(lines, 1, [x \in {} |-> NoSiri])]

\* getTransportType(code)
getTransportType(code) ==
    LET types == [c \in {"1", "2", "3", "4", "5"} |->
                     CASE c = "1" -> "tram" [] c = "2" -> "bus" [] c = "3" -> "trolley"
                       [] c = "4" -> "train" [] c = "5" -> "ferry"]
    IN IF code \in DOMAIN types THEN types[code] ELSE "bus"

\* parseInt(text) || 0
ParseIntOr0(text) == IF ParseInt(text) = NaN THEN 0 ELSE ParseInt(text)
\* Math.round(seconds / 60) of a number that is not negative
RoundMinutes(seconds) == (seconds + 30) \div 60

RECURSIVE SortByMinutes(_)
\* arrivals.sort((a, b) => a.expectedMinutes - b.expectedMinutes), a stable sort
SortByMinutes(a) ==
    IF Len(a) <= 1 THEN a
    ELSE LET front == SortByMinutes(SubSeq(a, 1, Len(a) - 1))
             x == a[Len(a)]
             k == Cardinality({j \in 1..Len(front) : front[j].expectedMinutes <= x.expectedMinutes})
         IN SubSeq(front, 1, k) \o <<x>> \o SubSeq(front, k + 1, Len(front))

\* getArrivals: the arrivals of the fetched lines
parseArrivals(lines) ==
    LET full == SelectSeq(lines, LAMBDA l : l.parts >= 4)
    IN SortByMinutes([i \in 1..Len(full) |->
           [transport |-> getTransportType(full[i].transport),
            route |-> full[i].route,
            expectedMinutes |-> RoundMinutes(ParseIntOr0(full[i].expected)),
            scheduleMinutes |-> RoundMinutes(ParseIntOr0(full[i].schedule)),
            isRealtime |-> ParseIntOr0(full[i].expected) # ParseIntOr0(full[i].schedule)]])

\* the live handler's res.json: stop lookup, route filter, slice(0, 10), map
\* (the clock texts of the entries and of the envelope are left out)
LiveResponse(stopId, route, stops, arrs) ==
    LET hits == {i \in 1..Len(stops) :
                    stops[i].id = stopId \/ \E k \in 1..Len(stops[i].stopIds) :
                                                stops[i].stopIds[k] = stopId}
        filtered == IF route # "" THEN SelectSeq(arrs, LAMBDA a : a.route = route)
                    ELSE arrs
        shown == SubSeq(filtered, 1, IF Len(filtered) < LiveLimit THEN Len(filtered) ELSE LiveLimit)
        result == [i \in 1..Len(shown) |->
                      [expectedMinutes |-> shown[i].expectedMinutes, route |-> shown[i].route,
                       transport |-> shown[i].transport, isRealtime |-> shown[i].isRealtime]]
    IN [status |-> 200, success |-> TRUE,
        stop |-> IF hits = {} THEN [stop_id |-> stopId]
                 ELSE LET stop == stops[CHOOSE i \in hits : \A j \in hits : i <= j]
                      IN [stop_id |-> stopId, stop_name |-> stop.name, stop_code |-> stop.id],
        route |-> IF route # "" THEN route ELSE "all",
        count |-> Len(result), data |-> result]

\* a request of the live handler that has not arrived yet
LiveRequest ==
    [pc |-> "idle", stopId |-> <<>>, route |-> "", now |-> 0, stops |-> <<>>,
     siriId |-> NoSiri, fetches |-> <<>>, response |-> NoResponse]

\* tallinnApi as loaded, no request of the live handler
LiveIdle ==
    /\ stopsCache = NoCache
    /\ siriIdMap = NoCache
    /\ cacheTimestamp = 0
    /\ clock = 0
    /\ live = [r \in Reqs |-> LiveRequest]

\* no request of the schedule handler
HandlerIdle ==
    /\ pc = "idle"
    /\ req = NoRequest
    /\ tallinnTime = NoTime
    /\ routeIds = {}
    /\ todayArrivals = <<>>
    /\ tomorrowArrivals = <<>>
    /\ arrivals = <<>>
    /\ queries = <<>>
    /\ response = NoResponse
    /\ caught = ""

\* no pure function applied, the page not opened, the importer not run
NoCall == [fn |-> "none"]
NoClient == [opened |-> FALSE]
NoImport == [started |-> FALSE]

RestIdle ==
    /\ call = NoCall
    /\ outcome = NoCall
    /\ client = NoClient
    /\ importer = NoImport

Init ==
    /\ \E base \in {{}, BaseRows} :
       \E extra \in {x \in SUBSET ExtraRows : Cardinality(x) <= MaxExtraRows} :
           stop_times = base \cup extra
    /\ \E a \in {x \in SUBSET CalendarChoicesA : Cardinality(x) <= 1} :
           calendar = {CalendarB} \cup a
    /\ calendar_dates \in {x \in SUBSET ExceptionRows :
                             Cardinality(x) <= MaxExceptions /\ UniqueServiceDate(x)}
    /\ HandlerIdle
    /\ LiveIdle
    /\ RestIdle

\* the handler up to its first await: parameter check, clock, stop query issued
Start(stopId, route, date, time) ==
    /\ pc = "idle"
    /\ req' = [stopId |-> stopId, route |-> route]
    /\ IF stopId = "" \/ route = ""
       THEN /\ response' = ErrorResponse(400, "stopId and route parameters are required")
            /\ pc' = "done"
            /\ UNCHANGED <<tallinnTime, queries>>
       ELSE /\ tallinnTime' = [date |-> date, time |-> time, dayOfWeek |-> getDayOfWeek(date)]
            /\ queries' = Append(queries, "stop")
            /\ pc' = "stop"
            /\ UNCHANGED response
    /\ UNCHANGED <<store, routeIds, todayArrivals, tomorrowArrivals, arrivals,
                   caught, liveVars, restVars>>

\* the stop query resolved: 404 or the route query issued
StopQueryDone ==
    /\ pc = "stop"
    /\ LET stopRows == {x \in Stops : x = req.stopId}
       IN IF stopRows = {}
          THEN /\ response' = ErrorResponse(404, "Stop not found")
               /\ pc' = "done"
               /\ UNCHANGED queries
          ELSE /\ queries' = Append(queries, "route")
               /\ pc' = "route"
               /\ UNCHANGED response
    /\ UNCHANGED <<store, req, tallinnTime, routeIds, todayArrivals, tomorrowArrivals, arrivals,
                   caught, liveVars, restVars>>

\* a variant that keeps the route id of the first row only
RouteQueryDone_FirstOnly ==
    /\ pc = "route"
    /\ LET routeRows == {x \in Routes : x.route_short_name = req.route}
       IN IF routeRows = {}
          THEN /\ response' = ErrorResponse(404, "Route not found")
               /\ pc' = "done"
               /\ UNCHANGED <<queries, routeIds>>
          ELSE /\ routeIds' = {(CHOOSE x \in routeRows : TRUE).route_id}
               /\ queries' = Append(queries, "today")
               /\ pc' = "today"
               /\ UNCHANGED response
    /\ UNCHANGED <<store, req, tallinnTime, todayArrivals, tomorrowArrivals, arrivals,
                   caught, liveVars, restVars>>

\* a variant that reports an unknown route with the answer of an unknown stop
RouteQueryDone_SameError ==
    /\ pc = "route"
    /\ LET routeRows == {x \in Routes : x.route_short_name = req.route}
       IN IF routeRows = {}
          THEN /\ response' = ErrorResponse(404, "Stop not found")
               /\ pc' = "done"
               /\ UNCHANGED <<queries, routeIds>>
          ELSE /\ routeIds' = {x.route_id : x \in routeRows}
               /\ queries' = Append(queries, "today")
               /\ pc' = "today"
               /\ UNCHANGED response
    /\ UNCHANGED <<store, req, tallinnTime, todayArrivals, tomorrowArrivals, arrivals,
                   caught, liveVars, restVars>>

\* the route query resolved: 404 or today's arrival query issued
RouteQueryDone ==
    /\ pc = "route"
    /\ LET routeRows == {x \in Routes : x.route_short_name = req.route}
       IN IF routeRows = {}
          THEN /\ response' = ErrorResponse(404, "Route not found")
               /\ pc' = "done"
               /\ UNCHANGED <<queries, routeIds>>
          ELSE /\ routeIds' = {x.route_id : x \in routeRows}
               /\ queries' = Append(queries, "today")
               /\ pc' = "today"
               /\ UNCHANGED response
    /\ UNCHANGED <<store, req, tallinnTime, todayArrivals, tomorrowArrivals, arrivals,
                   caught, liveVars, restVars>>

\* today's query resolved: today's loop, then either tomorrow's query is
\* issued or the array is sorted, cut and sent
TodayQueryDone ==
    /\ pc = "today"
    /\ \E rows \in OrderedResults(ArrivalsQuery(today, todayDayColumn, req.stopId, routeIds)) :
         LET pushed == TodayLoop(rows, 1)
         IN /\ todayArrivals' = rows
            /\ IF Len(pushed) < ResultLimit
               THEN /\ arrivals' = pushed
                    /\ queries' = Append(queries, "tomorrow")
                    /\ pc' = "tomorrow"
                    /\ UNCHANGED response
               ELSE /\ arrivals' = SortArrivals(pushed)
                    /\ response' = SuccessResponse(arrivals')
                    /\ pc' = "done"
                    /\ UNCHANGED queries
    /\ UNCHANGED <<store, req, tallinnTime, routeIds, tomorrowArrivals,
                   caught, liveVars, restVars>>

\* tomorrow's query resolved: tomorrow's loop, sort, cut, send
TomorrowQueryDone ==
    /\ pc = "tomorrow"
    /\ \E rows \in OrderedResults(ArrivalsQuery(tomorrow, tomorrowDayColumn, req.stopId, routeIds)) :
         /\ tomorrowArrivals' = rows
         /\ arrivals' = SortArrivals(arrivals \o TomorrowLoop(rows, 1))
         /\ response' = SuccessResponse(arrivals')
         /\ pc' = "done"
    /\ UNCHANGED <<store, req, tallinnTime, routeIds, todayArrivals, queries,
                   caught, liveVars, restVars>>

\* a variant that sends today's candidates when tomorrow's query rejected
QueryFailed_Partial ==
    /\ pc \in {"stop", "route", "today", "tomorrow"}
    /\ caught' = pc
    /\ response' = IF pc = "tomorrow" THEN SuccessResponse(SortArrivals(arrivals))
                   ELSE ErrorResponse(500, "Failed to fetch arrivals")
    /\ pc' = "done"
    /\ UNCHANGED <<store, req, tallinnTime, routeIds, todayArrivals, tomorrowArrivals,
                   arrivals, queries, liveVars, restVars>>

\* an awaited query rejected: the catch block answers 500
QueryFailed ==
    /\ pc \in {"stop", "route", "today", "tomorrow"}
    /\ caught' = pc
    /\ response' = ErrorResponse(500, "Failed to fetch arrivals")
    /\ pc' = "done"
    /\ UNCHANGED <<store, req, tallinnTime, routeIds, todayArrivals, tomorrowArrivals,
                   arrivals, queries, liveVars, restVars>>

Next ==
    \/ \E stopId \in RequestStops, route \in RequestRoutes,
          date \in ClockDates, time \in ClockTimes : Start(stopId, route, date, time)
    \/ StopQueryDone
    \/ RouteQueryDone
    \/ TodayQueryDone
    \/ TomorrowQueryDone
    \/ QueryFailed

Spec == Init /\ [][Next]_vars

\* the scheduling the code provides: the server runs the handler of a request
\* that has arrived.  The answers of the store are the store's steps; the
\* handler sets no timer, so no step of its own follows an issued query.
FairSpec ==
    Spec /\ WF_vars(\E stopId \in RequestStops, route \in RequestRoutes,
                       date \in ClockDates, time \in ClockTimes : Start(stopId, route, date, time))

\* the handler serving requests made shortly after midnight, at 00:30:00 of
\* the second date of the model
NightTime == HMS(0, 30, 0)

NightNext ==
    \/ \E stopId \in RequestStops, route \in RequestRoutes :
          Start(stopId, route, Day2, NightTime)
    \/ StopQueryDone
    \/ RouteQueryDone
    \/ TodayQueryDone
    \/ TomorrowQueryDone
    \/ QueryFailed

NightSpec == Init /\ [][NightNext]_vars

\* ------------------------------------------------------------ the live-feed handler
handlerVars == <<pc, req, tallinnTime, routeIds, todayArrivals, tomorrowArrivals,
                 arrivals, queries, response, caught>>

\* stopsCache && (now - cacheTimestamp) < CACHE_TTL
CacheFresh(cache, timestamp) == cache.loaded /\ clock - timestamp < CACHE_TTL

\* the handler's res.json with the arrivals getArrivals returned
Respond(rec, arrs) ==
    [rec EXCEPT !.pc = "done",
                !.response = LiveResponse(rec.stopId, rec.route, rec.stops, arrs)]

\* getSiriId after the stops are loaded, then getArrivals up to its fetch
Lookup(rec, idToSiri) ==
    LET siriId == IF IsNumeric(rec.stopId) THEN rec.stopId
                  ELSE IF idToSiri.loaded /\ rec.stopId \in DOMAIN idToSiri.value
                       THEN idToSiri.value[rec.stopId]
                       ELSE NoSiri
    IN IF siriId = NoSiri THEN Respond(rec, <<>>)
       ELSE [rec EXCEPT !.pc = "arrivals", !.siriId = siriId]

\* getArrivals from its start: getSiriId loads the stops when siriIdMap is unset
EnterArrivals(rec, idToSiri, cache, timestamp) ==
    IF ~idToSiri.loaded /\ ~CacheFresh(cache, timestamp)
    THEN [rec EXCEPT !.pc = "siri", !.now = clock]
    ELSE Lookup(rec, idToSiri)

\* the live handler up to its first await on the network
LiveStart(r, stopId, route) ==
    /\ live[r].pc = "idle"
    /\ LET rec == [live[r] EXCEPT !.stopId = stopId, !.route = route]
       IN live' = [live EXCEPT ![r] =
               IF stopId = <<>>
               THEN [rec EXCEPT !.pc = "done",
                                !.response = ErrorResponse(400, "stopId parameter is required")]
               ELSE IF CacheFresh(stopsCache, cacheTimestamp)
               THEN EnterArrivals([rec EXCEPT !.stops = stopsCache.value],
                                  siriIdMap, stopsCache, cacheTimestamp)
               ELSE [rec EXCEPT !.pc = "stops", !.now = clock]]
    /\ UNCHANGED <<stopsCache, siriIdMap, cacheTimestamp, clock, store, handlerVars, restVars>>

\* the fetch of stops.txt inside getStops ended, called by the handler
\* (pc "stops") or by getSiriId (pc "siri"): parsed and cached, or the
\* failure caught and the old cache or [] returned
StopsFetched(r, ok) ==
    /\ live[r].pc \in {"stops", "siri"}
    /\ LET parsed == parseStops(StopsTxt)
           rec == [live[r] EXCEPT !.fetches = Append(@, [of |-> live[r].pc, ok |-> ok])]
           returned == IF ok THEN parsed.stops
                       ELSE IF stopsCache.loaded THEN stopsCache.value ELSE <<>>
       IN /\ stopsCache' = IF ok THEN Loaded(parsed.stops) ELSE stopsCache
          /\ siriIdMap' = IF ok THEN Loaded(parsed.idToSiri) ELSE siriIdMap
          /\ cacheTimestamp' = IF ok THEN live[r].now ELSE cacheTimestamp
          /\ live' = [live EXCEPT ![r] =
                  IF live[r].pc = "stops"
                  THEN EnterArrivals([rec EXCEPT !.stops = returned],
                                     siriIdMap', stopsCache', cacheTimestamp')
                  ELSE Lookup(rec, siriIdMap')]
    /\ UNCHANGED <<clock, store, handlerVars, restVars>>

\* the fetch of the departures inside getArrivals ended: parsed and sorted,
\* or the failure caught and an empty list returned; the handler answers
ArrivalsFetched(r, ok) ==
    /\ live[r].pc = "arrivals"
    /\ LET rec == [live[r] EXCEPT !.fetches = Append(@, [of |-> "arrivals", ok |-> ok])]
       IN live' = [live EXCEPT ![r] =
               Respond(rec, IF ok THEN parseArrivals(SiriLines(live[r].siriId)) ELSE <<>>)]
    /\ UNCHANGED <<stopsCache, siriIdMap, cacheTimestamp, clock, store, handlerVars, restVars>>

\* time passes
Tick(d) ==
    /\ clock + d <= MaxTicks * (CACHE_TTL \div 2)
    /\ clock' = clock + d
    /\ UNCHANGED <<stopsCache, siriIdMap, cacheTimestamp, live, store, handlerVars, restVars>>

LiveInit ==
    /\ stop_times = {}
    /\ calendar = {CalendarB}
    /\ calendar_dates = {}
    /\ HandlerIdle
    /\ LiveIdle
    /\ RestIdle

LiveNext ==
    \/ \E r \in Reqs, stopId \in LiveStops, route \in LiveRoutes : LiveStart(r, stopId, route)
    \/ \E r \in Reqs, ok \in BOOLEAN : StopsFetched(r, ok)
    \/ \E r \in Reqs, ok \in BOOLEAN : ArrivalsFetched(r, ok)
    \/ \E d \in ClockSteps : Tick(d)

LiveSpec == LiveInit /\ [][LiveNext]_vars

\* ------------------------------------------------------------ getStops
\* concurrent calls of getStops, whoever the caller; live holds the locals of
\* each call and what it returned

\* what /data/stops.txt may hold when it is fetched: the feed, or its first
\* record only
FeedVersions == {StopsTxt, SubSeq(StopsTxt, 1, 1)}

StopsCall == [pc |-> "idle", now |-> 0, ok |-> FALSE, data |-> <<>>, result |-> <<>>]

CacheInit ==
    /\ stop_times = {}
    /\ calendar = {CalendarB}
    /\ calendar_dates = {}
    /\ HandlerIdle
    /\ stopsCache = NoCache
    /\ siriIdMap = NoCache
    /\ cacheTimestamp = 0
    /\ clock = 0
    /\ live = [r \in Reqs |-> StopsCall]
    /\ RestIdle

\* getStops up to its await: a fresh cache is returned, else the fetch is issued
GetStops(r) ==
    /\ live[r].pc = "idle"
    /\ live' = [live EXCEPT ![r] =
                   IF CacheFresh(stopsCache, cacheTimestamp)
                   THEN [@ EXCEPT !.pc = "done", !.now = clock, !.ok = TRUE,
                                  !.result = stopsCache.value]
                   ELSE [@ EXCEPT !.pc = "fetch", !.now = clock]]
    /\ UNCHANGED <<stopsCache, siriIdMap, cacheTimestamp, clock, store, handlerVars, restVars>>

\* a variant that leaves siriIdMap as it was
FetchDone_StopsOnly(r, ok, data) ==
    /\ live[r].pc = "fetch"
    /\ stopsCache' = (IF ok THEN Loaded(parseStops(data).stops) ELSE stopsCache)
    /\ cacheTimestamp' = (IF ok THEN live[r].now ELSE cacheTimestamp)
    /\ live' = [live EXCEPT ![r] =
                   [@ EXCEPT !.pc = "done", !.ok = ok, !.data = data,
                             !.result = IF ok THEN parseStops(data).stops
                                        ELSE IF stopsCache.loaded THEN stopsCache.value
                                        ELSE <<>>]]
    /\ UNCHANGED <<siriIdMap, clock, store, handlerVars, restVars>>

\* the fetch of a call settles: parseStops and the three assignments, or the
\* catch block
FetchDone(r, ok, data) ==
    /\ live[r].pc = "fetch"
    /\ LET parsed == parseStops(data)
       IN /\ siriIdMap' = (IF ok THEN Loaded(parsed.idToSiri) ELSE siriIdMap)
          /\ stopsCache' = (IF ok THEN Loaded(parsed.stops) ELSE stopsCache)
          /\ cacheTimestamp' = (IF ok THEN live[r].now ELSE cacheTimestamp)
          /\ live' = [live EXCEPT ![r] =
                         [@ EXCEPT !.pc = "done", !.ok = ok, !.data = data,
                                   !.result = IF ok THEN parsed.stops
                                              ELSE IF stopsCache.loaded THEN stopsCache.value
                                              ELSE <<>>]]
    /\ UNCHANGED <<clock, store, handlerVars, restVars>>

CacheNext ==
    \/ \E r \in Reqs : GetStops(r)
    \/ \E r \in Reqs, ok \in BOOLEAN, data \in FeedVersions : FetchDone(r, ok, data)
    \/ \E d \in ClockSteps : Tick(d)

CacheSpec == CacheInit /\ [][CacheNext]_vars

\* ------------------------------------------------------------ client/app.js
\* the page: state.selectedStop and state.selectedBus ("" for null), whether
\* the bus buttons are rendered, whether a /buses request is in flight,
\* whether #arrivalsContainer is visible, the route in the panel header, the
\* request whose data #arrivalsList shows, and the /arrivals requests in flight
ClientStops == {"1234", "5678"}
ClientRoutes == {"10A", "2"}
NoList == [stopId |-> "", route |-> ""]

ClientInit ==
    /\ stop_times = {}
    /\ calendar = {CalendarB}
    /\ calendar_dates = {}
    /\ HandlerIdle
    /\ LiveIdle
    /\ call = NoCall
    /\ outcome = NoCall
    /\ importer = NoImport
    /\ client = [opened |-> TRUE, selectedStop |-> "", selectedBus |-> "", buttons |-> FALSE,
                 busesInFlight |-> FALSE, visible |-> FALSE, header |-> "", list |-> NoList,
                 inFlight |-> {}]

clientFrame == <<store, handlerVars, liveVars, call, outcome, importer>>

\* the select callback of the stop autocomplete: clearBuses, clearArrivals
SelectStop(stop) ==
    /\ client' = [client EXCEPT !.selectedStop = stop, !.selectedBus = "", !.buttons = FALSE,
                                !.visible = FALSE, !.list = NoList]
    /\ UNCHANGED clientFrame

\* loadBuses up to its await
ClickLoadBuses ==
    /\ client.selectedStop # ""
    /\ client' = [client EXCEPT !.busesInFlight = TRUE, !.buttons = FALSE]
    /\ UNCHANGED clientFrame

\* loadBuses after its await: renderBuses, or the catch block
BusesArrive(ok) ==
    /\ client.busesInFlight
    /\ client' = [client EXCEPT !.busesInFlight = FALSE,
                                !.buttons = IF ok THEN TRUE ELSE @]
    /\ UNCHANGED clientFrame

\* a click on a bus button: loadArrivals up to its await
ClickBus(route) ==
    /\ client.buttons
    /\ client' = IF client.selectedStop = "" THEN client
                 ELSE [client EXCEPT !.visible = FALSE, !.selectedBus = route,
                                     !.inFlight = @ \cup {[stopId |-> client.selectedStop,
                                                           route |-> route]}]
    /\ UNCHANGED clientFrame

\* renderArrivals(result): the container is shown and the header set before
\* state.selectedStop.stop_name is read, which throws when no stop is selected
renderArrivals(c, result) ==
    IF c.selectedStop = ""
    THEN [c EXCEPT !.visible = TRUE, !.header = c.selectedBus]
    ELSE [c EXCEPT !.visible = TRUE, !.header = c.selectedBus, !.list = result]

\* loadArrivals after its await: the response of a request arrives
ArrivalsArrive(q, ok) ==
    /\ q \in client.inFlight
    /\ LET c == [client EXCEPT !.inFlight = @ \ {q}]
       IN client' = IF ok THEN renderArrivals(c, q) ELSE c
    /\ UNCHANGED clientFrame

\* clearAll: clearStops, clearBuses, clearArrivals
clearAll ==
    /\ client' = [client EXCEPT !.selectedStop = "", !.selectedBus = "", !.buttons = FALSE,
                                !.visible = FALSE, !.list = NoList]
    /\ UNCHANGED clientFrame

ClientNext ==
    \/ \E stop \in ClientStops : SelectStop(stop)
    \/ ClickLoadBuses
    \/ \E ok \in BOOLEAN : BusesArrive(ok)
    \/ \E route \in ClientRoutes : ClickBus(route)
    \/ \E stop \in ClientStops, route \in ClientRoutes, ok \in BOOLEAN :
          ArrivalsArrive([stopId |-> stop, route |-> route], ok)
    \/ clearAll

ClientSpec == ClientInit /\ [][ClientNext]_vars

\* ------------------------------------------------------------ importStopTimes
\* the import of stop_times.txt: total records in the file, remaining ones
\* not yet parsed, available ones parsed and not yet read, needReadable
\* whether the parser emits 'readable' when it has records, the length of the
\* array records, count, the batches of the 'readable' listener in flight,
\* the size of the batch of the 'end' listener in flight, the records
\* inserted, the records of batches whose failure was caught, whether two
\* batches were ever in flight together, and how far the run has come
ImportInit ==
    /\ stop_times = {}
    /\ calendar = {CalendarB}
    /\ calendar_dates = {}
    /\ HandlerIdle
    /\ LiveIdle
    /\ call = NoCall
    /\ outcome = NoCall
    /\ client = NoClient
    /\ \E total \in 0..MaxRecords :
          importer = [started |-> TRUE, total |-> total, remaining |-> total, available |-> 0,
                      needReadable |-> TRUE, records |-> 0, count |-> 0, inFlight |-> 0,
                      finalBatch |-> 0, inserted |-> 0, swallowed |-> 0, overlapped |-> FALSE,
                      ended |-> FALSE, resolved |-> FALSE, failed |-> FALSE, exited |-> FALSE]

importFrame == <<store, handlerVars, liveVars, call, outcome, client>>

\* the while loop of the 'readable' listener, up to its return or its await:
\* records are read and counted until none is left or the batch is full
ReadLoop(s) ==
    LET k == IF s.available < BatchSize - s.records THEN s.available
             ELSE BatchSize - s.records
    IN IF s.records + k = BatchSize
       THEN [s EXCEPT !.available = @ - k, !.count = @ + k, !.records = 0,
                      !.inFlight = @ + 1,
                      !.overlapped = @ \/ s.inFlight > 0 \/ s.finalBatch > 0,
                      !.needReadable = @ \/ s.available = k]
       ELSE [s EXCEPT !.available = 0, !.count = @ + k, !.records = @ + k,
                      !.needReadable = TRUE]

\* the read stream pipes a chunk into the parser, which parses its records
Parse(n) ==
    /\ importer.started /\ ~importer.exited
    /\ importer.remaining >= n
    /\ importer' = [importer EXCEPT !.remaining = @ - n, !.available = @ + n]
    /\ UNCHANGED importFrame

\* parser.on('readable', async () => ...) is called
Readable ==
    /\ importer.started /\ ~importer.exited /\ ~importer.ended
    /\ importer.available > 0 /\ importer.needReadable
    /\ importer' = ReadLoop([importer EXCEPT !.needReadable = FALSE])
    /\ UNCHANGED importFrame

\* await insertStopTimesBatch of a 'readable' listener settles: the failure
\* is caught and logged, parser.resume(), and the loop goes on
InsertDone(ok) ==
    /\ importer.started /\ ~importer.exited
    /\ importer.inFlight > 0
    /\ importer' = ReadLoop([importer EXCEPT !.inFlight = @ - 1,
                                             !.inserted = IF ok THEN @ + BatchSize ELSE @,
                                             !.swallowed = IF ok THEN @ ELSE @ + BatchSize])
    /\ UNCHANGED importFrame

\* parser.on('end', async () => ...): every record has been read
End ==
    /\ importer.started /\ ~importer.exited /\ ~importer.ended
    /\ importer.remaining = 0 /\ importer.available = 0
    /\ importer' = IF importer.records > 0
                   THEN [importer EXCEPT !.ended = TRUE, !.finalBatch = importer.records,
                                         !.overlapped = @ \/ importer.inFlight > 0]
                   ELSE [importer EXCEPT !.ended = TRUE, !.resolved = TRUE]
    /\ UNCHANGED importFrame

\* the insert of the remaining records settles: resolve(), or a rejection of
\* the listener that nothing handles
FinalDone(ok) ==
    /\ importer.started /\ ~importer.exited
    /\ importer.finalBatch > 0
    /\ importer' = IF ok THEN [importer EXCEPT !.finalBatch = 0, !.resolved = TRUE,
                                               !.inserted = @ + importer.finalBatch]
                   ELSE [importer EXCEPT !.finalBatch = 0, !.failed = TRUE]
    /\ UNCHANGED importFrame

\* main after await importStopTimes: success is reported, process.exit(0)
Exit ==
    /\ importer.started /\ importer.resolved /\ ~importer.exited
    /\ importer' = [importer EXCEPT !.exited = TRUE]
    /\ UNCHANGED importFrame

ImportNext ==
    \/ \E n \in 1..BatchSize : Parse(n)
    \/ Readable
    \/ \E ok \in BOOLEAN : InsertDone(ok)
    \/ End
    \/ \E ok \in BOOLEAN : FinalDone(ok)
    \/ Exit

ImportSpec == ImportInit /\ [][ImportNext]_vars

\* ------------------------------------------------------------ reference notions
\* what the claims speak of, defined without the handler's own functions

\* the text is H:MM:SS or HH:MM:SS with minutes and seconds below 60
IsHMS(text) ==
    LET n == Len(text)
    IN /\ n \in {7, 8}
       /\ text[n - 2] = ":" /\ text[n - 5] = ":"
       /\ \A i \in (1..n) \ {n - 2, n - 5} : IsDigit(text[i])
       /\ DigitVal(text[n - 4]) < 6 /\ DigitVal(text[n - 1]) < 6

TwoDigits(text, i) == DigitVal(text[i]) * 10 + DigitVal(text[i + 1])

\* the literal GTFS value of a well-formed text, in seconds
RawSeconds(text) ==
    LET n == Len(text)
        h == IF n = 8 THEN TwoDigits(text, 1) ELSE DigitVal(text[1])
    IN h * 3600 + TwoDigits(text, n - 4) * 60 + TwoDigits(text, n - 1)

\* seconds since midnight shown as HH:MM
FormatHM(t) == Chars2(t \div 3600) \o <<":">> \o Chars2((t % 3600) \div 60)

\* the calendar of the model's dates
WeekdayOf == (Day1 :> "wednesday") @@ (Day2 :> "thursday") @@ (Day3 :> "friday")
NextDate == (Day1 :> Day2) @@ (Day2 :> Day3)

HasException(S, D, type) ==
    \E cd \in calendar_dates : cd.service_id = S /\ cd.date = D /\ cd.exception_type = type

\* the activity rule of the data model
IsActive(S, D) ==
    \/ HasException(S, D, 1)
    \/ /\ ~HasException(S, D, 2)
       /\ \E c \in calendar : /\ c.service_id = S
                              /\ c[WeekdayOf[D]] = 1
                              /\ c.start_date <= D /\ D <= c.end_date

ServiceOf(st) == (CHOOSE t \in Trips : t.trip_id = st.trip_id).service_id

\* the stop_times rows of the requested stop on a route with the requested name
CandidateRows ==
    { st \in stop_times :
        /\ st.stop_id = req.stopId
        /\ \E t \in Trips, r \in Routes : /\ t.trip_id = st.trip_id
                                          /\ r.route_id = t.route_id
                                          /\ r.route_short_name = req.route }

InResult(rows, st) ==
    \E i \in 1..Len(rows) : rows[i].trip_id = st.trip_id /\ rows[i].arrival_time = st.arrival_time

Succeeded == pc = "done" /\ response.status = 200
\* today's query has answered and today's loop has run
TodayResolved == pc = "tomorrow" \/ Succeeded
\* tomorrow's query has answered too
TomorrowResolved == Succeeded /\ Len(queries) = 4

NowSeconds == RawSeconds(tallinnTime.time)

\* ------------------------------------------------------------ claims

\* C1: a successful response holds at most 5 arrivals, in ascending order of
\* sort key, and its count field is the length of the list.
C1_AtMostFiveAscending ==
    Succeeded =>
        /\ Len(response.data) <= 5
        /\ response.count = Len(response.data)
        /\ \A i, j \in 1..Len(response.data) :
              i < j => NumGe(arrivals[j].totalSeconds, arrivals[i].totalSeconds)

\* C2: on today and on tomorrow, a row of the stop/route is returned by the
\* arrival query exactly when its service is active on that date by the rule
\* "added, or (not removed and weekly flag set and inside the window)".
C2_QueryMatchesActivityRule ==
    /\ TodayResolved =>
          \A st \in CandidateRows :
              InResult(todayArrivals, st) <=> IsActive(ServiceOf(st), tallinnTime.date)
    /\ TomorrowResolved =>
          \A st \in CandidateRows :
              InResult(tomorrowArrivals, st) <=> IsActive(ServiceOf(st), NextDate[tallinnTime.date])

\* both days answered, and a row of sA was returned for today but not for tomorrow
C2_Witness ==
    /\ TomorrowResolved
    /\ \E st \in CandidateRows : /\ ServiceOf(st) = "sA"
                                 /\ InResult(todayArrivals, st)
                                 /\ ~InResult(tomorrowArrivals, st)

\* C3: a type-1 exception for (S, D) makes S active on D whatever its weekly
\* flags and window are, and also when S has no calendar row.
C3_AddedExceptionActivates ==
    /\ TodayResolved =>
          \A st \in CandidateRows :
              HasException(ServiceOf(st), tallinnTime.date, 1) => InResult(todayArrivals, st)
    /\ TomorrowResolved =>
          \A st \in CandidateRows :
              HasException(ServiceOf(st), NextDate[tallinnTime.date], 1)
                  => InResult(tomorrowArrivals, st)

\* sA has no calendar row, is added for today, and its row was returned
C3_Witness ==
    /\ TodayResolved
    /\ \A c \in calendar : c.service_id # "sA"
    /\ HasException("sA", tallinnTime.date, 1)
    /\ \E st \in CandidateRows : ServiceOf(st) = "sA" /\ InResult(todayArrivals, st)

\* C4: a type-2 exception for (S, D) makes S inactive on D whatever its weekly
\* flags and window are, and so does having neither a calendar row nor an
\* exception for D: no row of S is returned for service date D.
C4_RemovedOrUnknownInactive ==
    LET Inactive(S, D) ==
            \/ HasException(S, D, 2)
            \/ /\ \A c \in calendar : c.service_id # S
               /\ \A cd \in calendar_dates : ~(cd.service_id = S /\ cd.date = D)
    IN /\ TodayResolved =>
             \A st \in CandidateRows :
                 Inactive(ServiceOf(st), tallinnTime.date) => ~InResult(todayArrivals, st)
       /\ TomorrowResolved =>
             \A st \in CandidateRows :
                 Inactive(ServiceOf(st), NextDate[tallinnTime.date])
                     => ~InResult(tomorrowArrivals, st)

\* sA runs every day of the year, is removed for today, and none of its rows
\* of the stop/route was returned
C4_Witness ==
    /\ TodayResolved
    /\ HasException("sA", tallinnTime.date, 2)
    /\ \E c \in calendar : c.service_id = "sA" /\ c.start_date <= tallinnTime.date
                           /\ c[WeekdayOf[tallinnTime.date]] = 1
                           /\ tallinnTime.date <= c.end_date
    /\ \E st \in CandidateRows : ServiceOf(st) = "sA" /\ ~InResult(todayArrivals, st)

\* the array holds an entry made of the row with this date and sort key
HasEntry(row, date, key) ==
    \E j \in 1..Len(arrivals) :
        /\ arrivals[j].arrival_time_raw = row.arrival_time
        /\ arrivals[j].trip_headsign = row.trip_headsign
        /\ arrivals[j].date = date
        /\ arrivals[j].totalSeconds = key

\* C5: a row of a service active today with a well-formed time below 24:00:00
\* is a candidate exactly when its seconds are >= the current seconds; the
\* candidate is dated today and keyed by its seconds, and the array holds no
\* other today-dated entry of that time.
C5_SameDayNotYetDeparted ==
    TodayResolved =>
        \A i \in 1..Len(todayArrivals) :
            LET row == todayArrivals[i]
                raw == row.arrival_time
            IN (raw # SqlNull /\ IsHMS(raw) /\ RawSeconds(raw) < 86400) =>
                  /\ HasEntry(row, tallinnTime.date, RawSeconds(raw))
                         <=> RawSeconds(raw) >= NowSeconds
                  /\ \A j \in 1..Len(arrivals) :
                         (arrivals[j].arrival_time_raw = raw /\ arrivals[j].date = tallinnTime.date)
                             => (arrivals[j].totalSeconds = RawSeconds(raw)
                                 /\ RawSeconds(raw) >= NowSeconds)

\* at 14:00:00 the row of 14:00:00 is a candidate and the row of 13:30:00 is not
C5_Witness ==
    /\ TodayResolved
    /\ tallinnTime.time = HMS(14, 0, 0)
    /\ \E i, k \in 1..Len(todayArrivals) :
          /\ todayArrivals[i].arrival_time = HMS(14, 0, 0)
          /\ HasEntry(todayArrivals[i], tallinnTime.date, 50400)
          /\ todayArrivals[k].arrival_time = HMS(13, 30, 0)
          /\ \A j \in 1..Len(arrivals) : arrivals[j].arrival_time_raw # HMS(13, 30, 0)

\* C6: a row of a service active today with a well-formed time of 24:00:00 or
\* more is a candidate whatever the current time is, dated tomorrow, shown as
\* (seconds mod 86400) in HH:MM and keyed by its raw seconds.
C6_PastMidnightOfToday ==
    TodayResolved =>
        \A i \in 1..Len(todayArrivals) :
            LET row == todayArrivals[i]
                raw == row.arrival_time
            IN (raw # SqlNull /\ IsHMS(raw) /\ RawSeconds(raw) >= 86400) =>
                  \E j \in 1..Len(arrivals) :
                      /\ arrivals[j].arrival_time_raw = raw
                      /\ arrivals[j].trip_headsign = row.trip_headsign
                      /\ arrivals[j].date = NextDate[tallinnTime.date]
                      /\ arrivals[j].time = FormatHM(RawSeconds(raw) % 86400)
                      /\ arrivals[j].totalSeconds = RawSeconds(raw)

\* at 23:00:00 the row of 25:10:00 is a candidate shown as 01:10 of the next
\* day with sort key 90600
C6_Witness ==
    /\ TodayResolved
    /\ tallinnTime.time = HMS(23, 0, 0)
    /\ \E j \in 1..Len(arrivals) :
          /\ arrivals[j].arrival_time_raw = HMS(25, 10, 0)
          /\ arrivals[j].time = <<"0", "1", ":", "1", "0">>
          /\ arrivals[j].date = NextDate[tallinnTime.date]
          /\ arrivals[j].totalSeconds = 90600

\* C7: tomorrow's query is awaited only after a today pass of fewer than 5
\* candidates; of its rows, a well-formed time of 24:00:00 or more yields no
\* entry, and any other well-formed time yields an entry dated tomorrow and
\* keyed by seconds + 86400, whether or not it is before the current time.
C7_TomorrowPass ==
    /\ pc = "tomorrow" => Len(arrivals) < 5
    /\ TomorrowResolved =>
          \A i \in 1..Len(tomorrowArrivals) :
              LET row == tomorrowArrivals[i]
                  raw == row.arrival_time
              IN (raw # SqlNull /\ IsHMS(raw)) =>
                    IF RawSeconds(raw) >= 86400
                    THEN \A j \in 1..Len(arrivals) :
                             arrivals[j].arrival_time_raw = raw
                                 => arrivals[j].totalSeconds = RawSeconds(raw)
                    ELSE HasEntry(row, NextDate[tallinnTime.date], RawSeconds(raw) + 86400)

\* tomorrow's rows hold 25:10:00, which yields no entry at all, and 13:30:00,
\* which is before the current time 14:00:00 and yields an entry
C7_Witness ==
    /\ TomorrowResolved
    /\ tallinnTime.time = HMS(14, 0, 0)
    /\ \E i, k \in 1..Len(tomorrowArrivals) :
          /\ tomorrowArrivals[i].arrival_time = HMS(25, 10, 0)
          /\ \A j \in 1..Len(arrivals) : arrivals[j].arrival_time_raw # HMS(25, 10, 0)
          /\ tomorrowArrivals[k].arrival_time = HMS(13, 30, 0)
          /\ HasEntry(tomorrowArrivals[k], NextDate[tallinnTime.date], 48600 + 86400)

\* the wire form of a sorted array: cut to 5 and formatted
DataOf(sorted) == SuccessResponse(sorted).data

\* every order in which tomorrow's query may answer for this request
TomorrowResults ==
    OrderedResults(ArrivalsQuery(tomorrow, tomorrowDayColumn, req.stopId, routeIds))

\* C8: the early exit never changes the result: the list sent is the one that
\* running today's and tomorrow's pass always, merging, sorting and taking
\* the first 5 would give.
C8_EarlyExitChangesNothing ==
    Succeeded =>
        response.data \in
            { DataOf(SortArrivals(TodayLoop(todayArrivals, 1) \o TomorrowLoop(rows, 1))) :
                rows \in TomorrowResults }

WellFormedEntry(e) == IsHMS(e.arrival_time_raw)
TodayLabeled(e) == e.date = tallinnTime.date
PastMidnightEntry(e) == WellFormedEntry(e) /\ RawSeconds(e.arrival_time_raw) >= 86400
TomorrowPassEntry(e) ==
    /\ WellFormedEntry(e)
    /\ RawSeconds(e.arrival_time_raw) < 86400
    /\ e.date = NextDate[tallinnTime.date]

\* C9 as stated: in the merged sorted list every entry of the tomorrow pass
\* stands after every today-labeled entry and after every past-midnight
\* entry of a service of today.
C9_TomorrowAfterAllOfToday ==
    Succeeded =>
        \A i, j \in 1..Len(arrivals) :
            (TomorrowPassEntry(arrivals[i])
               /\ (TodayLabeled(arrivals[j]) \/ PastMidnightEntry(arrivals[j])))
                => j < i

\* C9 amended: when every candidate comes from a well-formed time, an entry
\* of the tomorrow pass stands after every today-labeled entry, and it stands
\* after a past-midnight entry of a service of today exactly when its key
\* (seconds + 86400) is not below that entry's raw seconds.
C9_TomorrowAfterTodayLabeled ==
    (Succeeded /\ \A k \in 1..Len(arrivals) : WellFormedEntry(arrivals[k])) =>
        \A i, j \in 1..Len(arrivals) :
            TomorrowPassEntry(arrivals[i]) =>
                /\ TodayLabeled(arrivals[j]) => j < i
                /\ PastMidnightEntry(arrivals[j]) =>
                      (j < i <=> RawSeconds(arrivals[j].arrival_time_raw)
                                    <= RawSeconds(arrivals[i].arrival_time_raw) + 86400)

\* 00:30 of the tomorrow pass stands after a today-labeled entry and before
\* the 25:10:00 of today's service
C9_Witness ==
    /\ Succeeded
    /\ \A k \in 1..Len(arrivals) : WellFormedEntry(arrivals[k])
    /\ \E i, j, l \in 1..Len(arrivals) :
          /\ l < i /\ i < j
          /\ TodayLabeled(arrivals[l])
          /\ TomorrowPassEntry(arrivals[i]) /\ arrivals[i].arrival_time_raw = HMS(0, 30, 0)
          /\ PastMidnightEntry(arrivals[j]) /\ arrivals[j].arrival_time_raw = HMS(25, 10, 0)

WellFormedRow(row) == IsHMS(row.arrival_time)

\* C10: a stored time that is not HH:MM:SS never shows in the output, and the
\* list sent is the one the well-formed rows alone would give.
C10_MalformedRowsSkipped ==
    Succeeded =>
        /\ \A i \in 1..Len(response.data) : WellFormedEntry(arrivals[i])
        /\ LET pushed == TodayLoop(SelectSeq(todayArrivals, WellFormedRow), 1)
           IN response.data \in
                 IF Len(pushed) >= 5 THEN {DataOf(SortArrivals(pushed))}
                 ELSE { DataOf(SortArrivals(pushed
                            \o TomorrowLoop(SelectSeq(rows, WellFormedRow), 1))) :
                        rows \in TomorrowResults }

\* the request passed the parameter check and no query of it failed
Answered == pc = "done" /\ response.status \notin {400, 500}
StopKnown == req.stopId \in Stops
RouteKnown == \E r \in Routes : r.route_short_name = req.route
StopNotFound == response.status = 404 /\ response.error = "Stop not found"
RouteNotFound == response.status = 404 /\ response.error = "Route not found"
IssuedArrivalQuery == \E i \in 1..Len(queries) : queries[i] \in {"today", "tomorrow"}

\* C11: an unknown stop_id is answered "stop not found", a known stop with a
\* route name of no route is answered "route not found", the two answers
\* differ, neither is given when the stop and a route of that name exist, and
\* with either answer no arrival query was issued and no arrivals are sent.
C11_NotFoundOutcomes ==
    Answered =>
        /\ ~StopKnown => StopNotFound
        /\ (StopKnown /\ ~RouteKnown) => RouteNotFound
        /\ (StopKnown /\ RouteKnown) => response.status = 200
        /\ ~(StopNotFound /\ RouteNotFound)
        /\ response.status = 404 =>
              /\ StopNotFound \/ RouteNotFound
              /\ ~IssuedArrivalQuery
              /\ arrivals = <<>>
              /\ "data" \notin DOMAIN response

\* the stop is known, the route name is not, the store holds rows of the
\* stop, and the answer is "route not found" after the two lookups only
C11_Witness ==
    /\ Answered /\ StopKnown /\ ~RouteKnown /\ RouteNotFound
    /\ queries = <<"stop", "route">>
    /\ \E st \in stop_times : st.stop_id = req.stopId

\* a row that the handler turns into an entry today or tomorrow
Qualifies(st) ==
    /\ IsHMS(st.arrival_time)
    /\ \/ /\ IsActive(ServiceOf(st), tallinnTime.date)
          /\ RawSeconds(st.arrival_time) >= 86400 \/ RawSeconds(st.arrival_time) >= NowSeconds
       \/ /\ IsActive(ServiceOf(st), NextDate[tallinnTime.date])
          /\ RawSeconds(st.arrival_time) < 86400

\* the text is a well-formed time, or missing
TimeOrMissing(text) == text = SqlNull \/ text = <<>> \/ IsHMS(text)

\* C12: with a known stop and a route of the requested name, the answer is a
\* success and never a not-found; when no row joins them, or none of their
\* rows qualifies today or tomorrow, the list is empty and the count is 0.
C12_EmptyIsSuccess ==
    (Answered /\ StopKnown /\ RouteKnown) =>
        /\ response.status = 200 /\ response.success
        /\ (\A st \in CandidateRows : TimeOrMissing(st.arrival_time) /\ ~Qualifies(st))
              => (response.data = <<>> /\ response.count = 0)

\* rows of the stop and route exist, none qualifies, and the answer is the
\* empty success
C12_Witness ==
    /\ Answered /\ StopKnown /\ RouteKnown
    /\ \E st \in CandidateRows : IsHMS(st.arrival_time)
    /\ \A st \in CandidateRows : TimeOrMissing(st.arrival_time) /\ ~Qualifies(st)
    /\ response.status = 200 /\ response.data = <<>> /\ response.count = 0

\* the live handler has answered request r with a success
LiveSucceeded(r) == live[r].pc = "done" /\ live[r].response.status = 200

\* C13: a success with an empty arrival list is sent only when every external
\* read of the request succeeded; a failed read is never reported as success
\* with an empty list.
C13_FailedReadNeverEmptySuccess ==
    \A r \in Reqs :
        (LiveSucceeded(r) /\ live[r].response.data = <<>>) =>
            \A i \in 1..Len(live[r].fetches) : live[r].fetches[i].ok

\* the outcomes a fetch of this kind may have had for request r: the one it
\* had when r made such a fetch, any when r made none
FetchOutcomes(r, kind) ==
    LET made == {i \in 1..Len(live[r].fetches) : live[r].fetches[i].of = kind}
    IN IF made = {} THEN BOOLEAN ELSE {live[r].fetches[i].ok : i \in made}

\* the answer of a request served alone by a freshly started process, its
\* fetch of the stops for the handler, of the stops for the id map and of the
\* departures ending as given
AloneResponse(stopId, route, stopsOk, mapOk, arrivalsOk) ==
    IF stopId = <<>> THEN ErrorResponse(400, "stopId parameter is required")
    ELSE LET parsed == parseStops(StopsTxt)
             siriId == IF IsNumeric(stopId) THEN stopId
                       ELSE IF (stopsOk \/ mapOk) /\ stopId \in DOMAIN parsed.idToSiri
                            THEN parsed.idToSiri[stopId]
                            ELSE NoSiri
         IN LiveResponse(stopId, route,
                         IF stopsOk THEN parsed.stops ELSE <<>>,
                         IF siriId = NoSiri \/ ~arrivalsOk THEN <<>>
                         ELSE parseArrivals(SiriLines(siriId)))

\* C17: whatever the interleaving, the answer of each request is an answer it
\* would get when served alone with the same feed content and the same
\* outcomes of its own fetches.
C17_ResponseAsIfAlone ==
    \A r \in Reqs :
        live[r].pc = "done" =>
            live[r].response \in
                { AloneResponse(live[r].stopId, live[r].route, o1, o2, o3) :
                    o1 \in FetchOutcomes(r, "stops"), o2 \in FetchOutcomes(r, "siri"),
                    o3 \in FetchOutcomes(r, "arrivals") }

\* C17 when no second request ever arrives
C17_AloneIsAlone == live["B"].pc = "idle" => C17_ResponseAsIfAlone

\* what the request has sent after a query of it rejected
FailureOutcome ==
    /\ pc = "done"
    /\ response.status = 500 /\ ~response.success
    /\ DOMAIN response = {"status", "success", "error"}
    /\ response.error \notin {"Stop not found", "Route not found"}

\* C14: when a query of the request rejects, the request ends with the one
\* failure answer, which is neither a not-found nor a success and carries no
\* arrival list; an answer once sent is never replaced; no query is issued
\* twice, and the rejected query is the last one issued.
C14_FailFast ==
    /\ [](/\ caught # "" => (FailureOutcome /\ queries[Len(queries)] = caught)
          /\ \A i, j \in 1..Len(queries) : i < j => queries[i] # queries[j])
    /\ [][response # NoResponse => response' = response]_vars

\* tomorrow's query rejected while today's candidates were in hand, and the
\* answer is the failure
C14_Witness ==
    /\ caught = "tomorrow" /\ arrivals # <<>>
    /\ queries = <<"stop", "route", "today", "tomorrow">>
    /\ FailureOutcome

\* the handler is suspended at a query it has issued
AwaitingQuery == pc \in {"stop", "route", "today", "tomorrow"}

\* C15: every request that has issued a query is answered in the end, also
\* when the store never answers that query.
C15_EveryRequestAnswered == AwaitingQuery ~> (pc = "done")

\* every order in which today's query may answer for this request
TodayResults ==
    OrderedResults(ArrivalsQuery(today, todayDayColumn, req.stopId, routeIds))

\* the lists a resolution of the same request at the same instant against
\* the same store content can send
RepeatedData ==
    UNION { LET pushed == TodayLoop(rowsToday, 1)
            IN IF Len(pushed) >= ResultLimit THEN {DataOf(SortArrivals(pushed))}
               ELSE { DataOf(SortArrivals(pushed \o TomorrowLoop(rowsTomorrow, 1))) :
                        rowsTomorrow \in TomorrowResults }
            : rowsToday \in TodayResults }

\* C16: resolving the same (stop, route, instant) again against the same
\* store content sends the same entries in the same order, entries of equal
\* sort key included.
C16_SameInputSameOutput ==
    Succeeded => \A data \in RepeatedData : data = response.data

\* the route ids that carry the requested short name
NamedRouteIds == {r.route_id : r \in {x \in Routes : x.route_short_name = req.route}}
RouteOf(st) == (CHOOSE t \in Trips : t.trip_id = st.trip_id).route_id

\* C18: every route id carrying the requested short name is queried for: a
\* row of the stop on a trip of any of them, of a service active on the
\* queried date, is among the rows the arrival query returns.
C18_EveryRouteIdIncluded ==
    /\ pc \in {"today", "tomorrow"} \/ Succeeded => routeIds = NamedRouteIds
    /\ TodayResolved =>
          \A id \in NamedRouteIds : \A st \in stop_times :
              (st.stop_id = req.stopId /\ RouteOf(st) = id
                  /\ IsActive(ServiceOf(st), tallinnTime.date))
                  => InResult(todayArrivals, st)
    /\ TomorrowResolved =>
          \A id \in NamedRouteIds : \A st \in stop_times :
              (st.stop_id = req.stopId /\ RouteOf(st) = id
                  /\ IsActive(ServiceOf(st), NextDate[tallinnTime.date]))
                  => InResult(tomorrowArrivals, st)

\* two route ids carry the name, and rows of trips of both were returned for
\* today and became candidates
C18_Witness ==
    /\ TodayResolved
    /\ Cardinality(NamedRouteIds) = 2
    /\ \A id \in NamedRouteIds :
          \E st \in stop_times :
              /\ st.stop_id = req.stopId /\ RouteOf(st) = id
              /\ InResult(todayArrivals, st)
              /\ \E j \in 1..Len(arrivals) : arrivals[j].arrival_time_raw = st.arrival_time

\* DD.MM: two digits, a dot, two digits
IsDayMonth(label) ==
    /\ Len(label) = 5 /\ label[3] = "."
    /\ \A i \in {1, 2, 4, 5} : IsDigit(label[i])

\* C19: the date of every entry sent is today or tomorrow, its label is the
\* label of today exactly when the date is today and the label of tomorrow
\* exactly when the date is tomorrow, and no entry carries a DD.MM label.
C19_LabelsTodayOrTomorrow ==
    Succeeded =>
        \A i \in 1..Len(response.data) :
            LET e == response.data[i]
            IN /\ e.date \in {tallinnTime.date, NextDate[tallinnTime.date]}
               /\ e.dateLabel = <<"T", "a", "n", "a">> <=> e.date = tallinnTime.date
               /\ e.dateLabel = <<"H", "o", "m", "m", "e">> <=> e.date = NextDate[tallinnTime.date]
               /\ ~IsDayMonth(e.dateLabel)

\* the list sent holds an entry of today, an entry of today's service past
\* midnight and an entry of tomorrow's pass, the last two labelled tomorrow
C19_Witness ==
    /\ Succeeded
    /\ \E i, j, k \in 1..Len(response.data) :
          /\ response.data[i].dateLabel = <<"T", "a", "n", "a">>
          /\ PastMidnightEntry(arrivals[j])
          /\ response.data[j].dateLabel = <<"H", "o", "m", "m", "e">>
          /\ TomorrowPassEntry(arrivals[k])
          /\ response.data[k].dateLabel = <<"H", "o", "m", "m", "e">>

\* C20: the headsign of an entry is trip_headsign when that is not null, the
\* empty string included, else route_long_name when that is not null, else
\* the empty string; its route is route_short_name and its direction is
\* direction_id as stored, null included.
C20_HeadsignFallback ==
    Succeeded =>
        \A i \in 1..Len(response.data) :
            LET row == arrivals[i]
            IN /\ response.data[i].headsign =
                     IF row.trip_headsign # NullText THEN row.trip_headsign
                     ELSE IF row.route_long_name # NullText THEN row.route_long_name
                     ELSE ""
               /\ response.data[i].route = row.route_short_name
               /\ response.data[i].direction = row.direction_id

\* ------------------------------------------- the handler's pure functions
\* each is applied once to an argument drawn from a bounded set: call holds
\* the function's name and its arguments, outcome what it returned

\* process.env.TZ of the host; "" stands for a variable that is not set
TZEnv == {"", "Europe/Tallinn", "UTC", "Asia/Tokyo"}
\* process.env.TZ || 'Europe/Tallinn'
TIMEZONE(TZ) == IF TZ = "" THEN "Europe/Tallinn" ELSE TZ
\* hours east of UTC at the instants of the model (winter time)
ZoneOffset == ("Europe/Tallinn" :> 2) @@ ("UTC" :> 0) @@ ("Asia/Tokyo" :> 9)

\* new Date(): an instant, as its UTC date and its seconds since UTC midnight
Instants == {[date |-> d, seconds |-> t] : d \in {Day1, Day2}, t \in {43200, 57600, 81000}}

\* toLocaleDateString / toLocaleTimeString with {timeZone: TIMEZONE}
getTallinnTime(now, TZ) ==
    LET shifted == now.seconds + ZoneOffset[TIMEZONE(TZ)] * 3600
        date == IF shifted >= SecondsPerDay THEN getTomorrow(now.date) ELSE now.date
        t == shifted % SecondsPerDay
    IN [date |-> date,
        time |-> HMS(t \div 3600, (t % 3600) \div 60, t % 60),
        dayOfWeek |-> getDayOfWeek(date)]

\* today, tomorrow, the two day columns and currentTimeSeconds of a request
Resolution(now, TZ) ==
    LET t == getTallinnTime(now, TZ)
    IN [today |-> t.date,
        tomorrow |-> getTomorrow(t.date),
        currentTimeSeconds |-> timeToSeconds(t.time),
        todayDayColumn |-> getDayColumn(t.dayOfWeek),
        tomorrowDayColumn |-> getDayColumn(getDayOfWeek(getTomorrow(t.date)))]

\* the years whose dates getTomorrow and getDayOfWeek are applied to
TestYears == {50, 99, 1999, 2000, 2023, 2024, 2100}

\* days since a fixed origin of a year, month and day of the civil calendar
DayNumber(date) ==
    LET y0 == date \div 10000
        m0 == (date \div 100) % 100
        y == IF m0 <= 2 THEN y0 - 1 ELSE y0
        m == IF m0 <= 2 THEN m0 + 9 ELSE m0 - 3
    IN 365 * y + (y \div 4) - (y \div 100) + (y \div 400) + ((153 * m + 2) \div 5) + (date % 100)

FirstOfNextMonth(date) ==
    LET y == date \div 10000
        m == (date \div 100) % 100
    IN IF m = 12 THEN (y + 1) * 10000 + 101 ELSE y * 10000 + (m + 1) * 100 + 1

\* a date of the civil calendar
ValidDate(date) ==
    /\ (date \div 100) % 100 \in 1..12
    /\ date % 100 >= 1
    /\ DayNumber(date) < DayNumber(FirstOfNextMonth(date))

TestDates ==
    {date \in {y * 10000 + m * 100 + d : y \in TestYears, m \in 1..12, d \in 1..31} :
        ValidDate(date)}

DateCalls == {[fn |-> "getTomorrow", date |-> d] : d \in TestDates}
TimeCalls == {[fn |-> "getTallinnTime", now |-> now, TZ |-> TZ] : now \in Instants, TZ \in TZEnv}

\* ------------------------------------------------ buses.js: the route list
\* Infinity of JS, where a name has no leading digits
Infinity == NaN - 1

\* a.match(/^(\d*)(\D*)$/) || ['', a, '']: leading digits, then no digit
RouteMatch(a) ==
    LET digits == {i \in 1..Len(a) : IsDigit(a[i])}
        k == Cardinality(digits)
    IN IF digits = 1..k THEN <<SubSeq(a, 1, k), SubSeq(a, k + 1, Len(a))>>
       ELSE <<a, <<>>>>

\* matchA[1] ? parseInt(matchA[1], 10) : Infinity
RouteNum(a) == IF RouteMatch(a)[1] = <<>> THEN Infinity ELSE ParseInt(RouteMatch(a)[1])

\* suffixA.localeCompare(suffixB), as its sign
localeCompare(a, b) == IF TextLess(a, b) THEN -1 ELSE IF TextLess(b, a) THEN 1 ELSE 0

\* naturalRouteSort(a, b) as the sort reads it: its sign, NaN taken as +0
naturalRouteSort(a, b) ==
    LET numA == RouteNum(a)
        numB == RouteNum(b)
    IN IF numA = NaN \/ numB = NaN THEN 0
       ELSE IF numA # numB
            THEN (IF numA = Infinity THEN 1 ELSE IF numB = Infinity THEN -1 ELSE numA - numB)
       ELSE localeCompare(RouteMatch(a)[2], RouteMatch(b)[2])

\* route_short_name || ''
NameOrEmpty(name) == IF name = SqlNull THEN <<>> ELSE name

RECURSIVE RouteRunLength(_, _, _)
RouteRunLength(a, isDescending, idx) ==
    IF idx > Len(a) THEN idx - 1
    ELSE LET order == naturalRouteSort(NameOrEmpty(a[idx]), NameOrEmpty(a[idx - 1]))
         IN IF (isDescending /\ order >= 0) \/ (~isDescending /\ order < 0) THEN idx - 1
            ELSE RouteRunLength(a, isDescending, idx + 1)

RECURSIVE RouteFindPos(_, _, _, _)
RouteFindPos(a, pivot, left, right) ==
    IF left >= right THEN left
    ELSE LET mid == left + ((right - left) \div 2)
         IN IF naturalRouteSort(NameOrEmpty(pivot), NameOrEmpty(a[mid])) < 0
            THEN RouteFindPos(a, pivot, left, mid)
            ELSE RouteFindPos(a, pivot, mid + 1, right)

RECURSIVE RouteInsertionSort(_, _)
RouteInsertionSort(a, start) ==
    IF start > Len(a) THEN a
    ELSE LET pivot == a[start]
             left == RouteFindPos(a, pivot, 1, start)
             moved == SubSeq(a, 1, left - 1) \o <<pivot>> \o SubSeq(a, left, start - 1)
                      \o SubSeq(a, start + 1, Len(a))
         IN RouteInsertionSort(moved, start + 1)

\* names.sort(naturalRouteSort), the sort of the runtime for a short array
SortRoutes(a) ==
    IF Len(a) < 2 THEN a
    ELSE LET isDescending == naturalRouteSort(NameOrEmpty(a[2]), NameOrEmpty(a[1])) < 0
             run == RouteRunLength(a, isDescending, 3)
             made == IF isDescending THEN Reverse(SubSeq(a, 1, run)) \o SubSeq(a, run + 1, Len(a))
                     ELSE a
         IN RouteInsertionSort(made, run + 1)

RECURSIVE Unique(_)
\* [...new Set(names)]: the first occurrence of each value, in order
Unique(a) ==
    IF Len(a) = 0 THEN a
    ELSE LET front == Unique(SubSeq(a, 1, Len(a) - 1))
             x == a[Len(a)]
         IN IF \E i \in 1..Len(front) : front[i] = x THEN front ELSE Append(front, x)

\* names.filter(Boolean): null and '' are dropped
FilterBoolean(a) == SelectSeq(a, LAMBDA x : x # SqlNull /\ x # <<>>)

\* the schedule variant: rows sorted, names deduplicated and filtered
BusesResponse(rows) ==
    LET routeNames == FilterBoolean(Unique(SortRoutes(rows)))
    IN [count |-> Len(routeNames), data |-> routeNames]

\* the live variant: the routes of the arrivals, deduplicated and sorted
LiveBusesResponse(routes) ==
    LET routeNames == SortRoutes(Unique(routes))
    IN [count |-> Len(routeNames), data |-> routeNames]

\* route names of the store and of the feed
RouteNames == {<<"1">>, <<"3">>, <<"1", "0">>, <<"1", "0", "a">>, <<"a", "1">>, <<>>}

NameLists(S) == {<<>>} \cup {<<x>> : x \in S} \cup {<<x, y>> : x, y \in S}
                  \cup {<<x, y, z>> : x, y, z \in S}

\* rows as ORDER BY r.route_short_name returns them
SortedRows == {a \in NameLists(RouteNames \cup {SqlNull}) :
                  \A i \in 1..(Len(a) - 1) : OrderLe(a[i], a[i + 1])}

BusCalls == {[fn |-> "buses", rows |-> a] : a \in SortedRows}
              \cup {[fn |-> "busesLive", routes |-> a] : a \in NameLists(RouteNames)}

\* ------------------------------------------------------- the nearest stop
\* coordinates, in degrees; NaN where the field of the feed has no number,
\* NULL columns of the stops table likewise
Places == {[lat |-> NaN, lng |-> NaN], [lat |-> 0, lng |-> 0], [lat |-> 1, lng |-> 0],
           [lat |-> 1, lng |-> 2], [lat |-> 3, lng |-> 1]}
QueryPoint == [lat |-> 1, lng |-> 1]

\* getDistance: the great-circle distance; between points of the model it is
\* ordered as the squared planar distance, NaN as soon as a coordinate is NaN
getDistance(lat1, lng1, lat2, lng2) ==
    IF lat2 = NaN \/ lng2 = NaN THEN NaN
    ELSE (lat2 - lat1) * (lat2 - lat1) + (lng2 - lng1) * (lng2 - lng1)

RECURSIVE NearestLoop(_, _, _, _, _)
\* for (const stop of stops) if (distance < minDistance) ...; 0 is null
NearestLoop(stops, at, i, nearest, minDistance) ==
    IF i > Len(stops) THEN nearest
    ELSE LET distance == getDistance(at.lat, at.lng, stops[i].lat, stops[i].lng)
         IN IF distance # NaN /\ (minDistance = Infinity \/ distance < minDistance)
            THEN NearestLoop(stops, at, i + 1, i, distance)
            ELSE NearestLoop(stops, at, i + 1, nearest, minDistance)

findNearestStop(stops, at) == NearestLoop(stops, at, 1, 0, Infinity)

\* WHERE stop_lat IS NOT NULL AND stop_lon IS NOT NULL AND stop_lat != 0 AND stop_lon != 0
NearestSqlRows(stops) ==
    {i \in 1..Len(stops) : /\ stops[i].lat # NaN /\ stops[i].lng # NaN
                           /\ stops[i].lat # 0 /\ stops[i].lng # 0}

\* ORDER BY distance_km ASC LIMIT 1: a row of least distance, 0 when none
NearestSqlResults(stops, at) ==
    LET rows == NearestSqlRows(stops)
        d(i) == getDistance(at.lat, at.lng, stops[i].lat, stops[i].lng)
    IN IF rows = {} THEN {0} ELSE {i \in rows : \A j \in rows : d(i) <= d(j)}

\* if (!nearest) 404 'No stops found', else the stop
NearestResponse(nearest) ==
    IF nearest = 0 THEN [status |-> 404, error |-> "No stops found"]
    ELSE [status |-> 200, stop |-> nearest]

StopLists == {<<>>} \cup {<<x>> : x \in Places} \cup {<<x, y>> : x, y \in Places}

NearestCalls == {[fn |-> f, stops |-> a, at |-> QueryPoint] :
                    f \in {"findNearestStop", "nearestSql"}, a \in StopLists}

PureCalls == DateCalls \cup TimeCalls \cup BusCalls \cup NearestCalls

PureInit ==
    /\ stop_times = {}
    /\ calendar = {CalendarB}
    /\ calendar_dates = {}
    /\ HandlerIdle
    /\ LiveIdle
    /\ call \in PureCalls
    /\ outcome = NoCall
    /\ client = NoClient
    /\ importer = NoImport

\* const tallinnTime = getTallinnTime(); today, tomorrow, the day columns
ApplyGetTallinnTime ==
    /\ call.fn = "getTallinnTime"
    /\ outcome = NoCall
    /\ outcome' = Resolution(call.now, call.TZ)
    /\ UNCHANGED <<store, handlerVars, liveVars, call, client, importer>>

\* getTomorrow(today), getDayOfWeek(today), getDayOfWeek(tomorrow)
ApplyGetTomorrow ==
    /\ call.fn = "getTomorrow"
    /\ outcome = NoCall
    /\ outcome' = [tomorrow |-> getTomorrow(call.date),
                    dayOfWeek |-> getDayOfWeek(call.date),
                    tomorrowDayOfWeek |-> getDayOfWeek(getTomorrow(call.date))]
    /\ UNCHANGED <<store, handlerVars, liveVars, call, client, importer>>

\* GET /api/buses, from the rows of the query on
ApplyBuses ==
    /\ call.fn = "buses"
    /\ outcome = NoCall
    /\ outcome' = BusesResponse(call.rows)
    /\ UNCHANGED <<store, handlerVars, liveVars, call, client, importer>>

\* GET /api/buses of the live feed, from the arrivals on
ApplyLiveBuses ==
    /\ call.fn = "busesLive"
    /\ outcome = NoCall
    /\ outcome' = LiveBusesResponse(call.routes)
    /\ UNCHANGED <<store, handlerVars, liveVars, call, client, importer>>

\* GET /api/nearest over the stops of the feed
ApplyFindNearestStop ==
    /\ call.fn = "findNearestStop"
    /\ outcome = NoCall
    /\ outcome' = NearestResponse(findNearestStop(call.stops, call.at))
    /\ UNCHANGED <<store, handlerVars, liveVars, call, client, importer>>

\* GET /api/nearest over the stops table
ApplyNearestSql ==
    /\ call.fn = "nearestSql"
    /\ outcome = NoCall
    /\ \E i \in NearestSqlResults(call.stops, call.at) : outcome' = NearestResponse(i)
    /\ UNCHANGED <<store, handlerVars, liveVars, call, client, importer>>

PureNext ==
    \/ ApplyGetTallinnTime
    \/ ApplyGetTomorrow
    \/ ApplyBuses
    \/ ApplyLiveBuses
    \/ ApplyFindNearestStop
    \/ ApplyNearestSql

PureSpec == PureInit /\ [][PureNext]_vars

Applied(fn) == call.fn = fn /\ outcome # NoCall

\* C21: the date, weekday and time of day of a resolution are those of
\* Europe/Tallinn whatever the host's timezone setting: a run at the same
\* instant under any other setting computes the same today, tomorrow, day
\* columns and seconds since midnight.
C21_HostTimezoneIndependent ==
    Applied("getTallinnTime") =>
        \A TZ \in TZEnv : Resolution(call.now, TZ) = outcome

NumericPrefix(name) == SubSeq(name, 1, Cardinality({i \in 1..Len(name) : \A j \in 1..i : IsDigit(name[j])}))
SuffixOf(name) == SubSeq(name, Len(NumericPrefix(name)) + 1, Len(name))

\* a comes no later than b in natural order: by the number the name starts
\* with, then by the rest alphabetically; names that start with no number
\* come after those that do
NaturalLe(a, b) ==
    LET pa == NumericPrefix(a)
        pb == NumericPrefix(b)
    IN IF pa # <<>> /\ pb # <<>>
       THEN \/ DigitPrefix(pa, 1, 0) < DigitPrefix(pb, 1, 0)
            \/ DigitPrefix(pa, 1, 0) = DigitPrefix(pb, 1, 0) /\ ~TextLess(SuffixOf(b), SuffixOf(a))
       ELSE IF pa # <<>> THEN TRUE
       ELSE IF pb # <<>> THEN FALSE
       ELSE ~TextLess(b, a)

\* C22: the route list of a stop is in natural order, holds no name twice and
\* no empty name, and count is its length.
C22_NaturalOrderNoDuplicates ==
    (Applied("buses") \/ Applied("busesLive")) =>
        /\ \A i, j \in 1..Len(outcome.data) :
              i < j => /\ NaturalLe(outcome.data[i], outcome.data[j])
                       /\ outcome.data[i] # outcome.data[j]
        /\ \A i \in 1..Len(outcome.data) : outcome.data[i] \notin {<<>>, SqlNull}
        /\ outcome.count = Len(outcome.data)

\* the stops that have coordinates other than (0,0)
ValidStops(stops) ==
    {i \in 1..Len(stops) : /\ stops[i].lat # NaN /\ stops[i].lng # NaN
                           /\ ~(stops[i].lat = 0 /\ stops[i].lng = 0)}

\* C23: the nearest-stop lookup returns the first stop of least distance among
\* the stops with valid coordinates, and reports that no stop was found only
\* when there is none.
C23_NearestValidStop ==
    (Applied("findNearestStop") \/ Applied("nearestSql")) =>
        LET valid == ValidStops(call.stops)
            d(i) == getDistance(call.at.lat, call.at.lng, call.stops[i].lat, call.stops[i].lng)
        IN IF valid = {} THEN outcome.status = 404
           ELSE /\ outcome.status = 200
                /\ outcome.stop \in valid
                /\ \A j \in valid : d(outcome.stop) <= d(j)
                /\ \A j \in valid : d(j) = d(outcome.stop) => outcome.stop <= j

\* order of the characters of a displayed time: digits, then ':', then letters
DisplayRank(ch) == IF IsDigit(ch) THEN DigitVal(ch) ELSE IF ch = ":" THEN 10 ELSE 11

RECURSIVE DisplayLess(_, _)
\* a < b as texts
DisplayLess(a, b) ==
    IF Len(b) = 0 THEN FALSE
    ELSE IF Len(a) = 0 THEN TRUE
    ELSE IF DisplayRank(a[1]) # DisplayRank(b[1]) THEN DisplayRank(a[1]) < DisplayRank(b[1])
    ELSE DisplayLess(Tail(a), Tail(b))

\* C26: in every successful response consecutive entries are in non-decreasing
\* order of what is displayed, the pair of date and time, whatever raw times
\* are stored.
C26_DisplayedOrderChronological ==
    Succeeded =>
        \A i \in 1..(Len(response.data) - 1) :
            LET e1 == response.data[i]
                e2 == response.data[i + 1]
            IN \/ e1.date < e2.date
               \/ e1.date = e2.date /\ ~DisplayLess(e2.time, e1.time)

\* the same, when every stored time of the result is HH:MM:SS below 48:00:00
C26_OrderBelow48 ==
    (Succeeded /\ \A i \in 1..Len(arrivals) :
                     /\ WellFormedEntry(arrivals[i])
                     /\ RawSeconds(arrivals[i].arrival_time_raw) < 2 * SecondsPerDay)
        => C26_DisplayedOrderChronological

\* the date before a date of the model
PreviousDate == (Day2 :> Day1) @@ (Day3 :> Day2)

\* a row of yesterday's service that arrives today after midnight, not
\* before the current time: its raw time less 24 hours lies on today
FromYesterdayStillToCome(st) ==
    /\ WellFormedRow(st)
    /\ RawSeconds(st.arrival_time) >= SecondsPerDay
    /\ RawSeconds(st.arrival_time) < 2 * SecondsPerDay
    /\ RawSeconds(st.arrival_time) - SecondsPerDay >= NowSeconds
    /\ IsActive(ServiceOf(st), PreviousDate[tallinnTime.date])

\* C25: once today's pass has run, every row of the stop and route whose raw
\* time is 24:00:00 or later, whose service was active yesterday and whose
\* wall-clock time today is not before the current time is among the
\* candidates, dated today and shown at its raw time less 24 hours.
C25_YesterdayPastMidnightShownToday ==
    (TodayResolved /\ tallinnTime.date \in DOMAIN PreviousDate) =>
        \A st \in CandidateRows :
            FromYesterdayStillToCome(st) =>
                \E j \in 1..Len(arrivals) :
                    /\ arrivals[j].arrival_time_raw = st.arrival_time
                    /\ arrivals[j].date = tallinnTime.date
                    /\ arrivals[j].time = FormatHM(RawSeconds(st.arrival_time) - SecondsPerDay)

\* the fetch of call r has just failed
FetchFails(r) == live[r].pc = "fetch" /\ live'[r].pc = "done" /\ ~live'[r].ok

\* C27: a call of getStops whose fetch fails returns the cached stop list when
\* there is one, however old, and the empty list otherwise, and leaves
\* stopsCache, siriIdMap and cacheTimestamp as they were; stopsCache and
\* siriIdMap are at all times the stop list and the map of one and the same
\* fetched text.
C27_FailureKeepsCache ==
    /\ [](/\ stopsCache.loaded <=> siriIdMap.loaded
          /\ stopsCache.loaded =>
                \E data \in FeedVersions :
                    /\ stopsCache.value = parseStops(data).stops
                    /\ siriIdMap.value = parseStops(data).idToSiri)
    /\ [][\A r \in Reqs :
             FetchFails(r) =>
                 /\ UNCHANGED <<stopsCache, siriIdMap, cacheTimestamp>>
                 /\ live'[r].result = IF stopsCache.loaded THEN stopsCache.value ELSE <<>>]_vars

\* a fetch failed when the cache was an hour old, and the call returned the
\* cached list, which a fetch of the shorter text had filled
C27_Witness ==
    \E r \in Reqs :
        /\ live[r].pc = "done" /\ ~live[r].ok
        /\ live[r].now - cacheTimestamp >= CACHE_TTL
        /\ stopsCache.loaded
        /\ live[r].result = stopsCache.value
        /\ Len(stopsCache.value) = 1
        /\ siriIdMap.value = parseStops(SubSeq(StopsTxt, 1, 1)).idToSiri

\* the calls whose fetch succeeded, and those of them that started last
Fetched == {r \in Reqs : live[r].pc = "done" /\ live[r].ok /\ live[r].data # <<>>}
LastStarted == {r \in Fetched : \A q \in Fetched : live[q].now <= live[r].now}

\* C28: however concurrent calls interleave, cacheTimestamp never decreases
\* and the cached list is the one parsed from the text of a successful fetch
\* that started last.
C28_LatestFetchWins ==
    /\ [][cacheTimestamp' >= cacheTimestamp]_vars
    /\ [](Fetched # {} =>
            \E r \in LastStarted : stopsCache.value = parseStops(live[r].data).stops)

\* C29: whenever the arrivals panel is visible, a stop is selected and the
\* list shown is the response for the route held in state.selectedBus, which
\* the header names, at the selected stop.
C29_PanelShowsCurrentSelection ==
    client.visible =>
        /\ client.selectedStop # ""
        /\ client.header = client.selectedBus
        /\ client.list = [stopId |-> client.selectedStop, route |-> client.selectedBus]

\* C30: when importStopTimes has resolved, every record of the file has been
\* inserted by a batch that completed: none is in flight, no two batches were
\* in flight together and no failure of a batch was caught and passed over.
C30_ResolvedMeansAllInserted ==
    (importer.started /\ importer.resolved) =>
        /\ importer.inFlight = 0
        /\ importer.finalBatch = 0
        /\ ~importer.overlapped
        /\ importer.swallowed = 0
        /\ importer.inserted = importer.total

====
